---------------------------- MODULE Spec2Model ----------------------------
(***************************************************************************)
(* A model of the resource layer of rqs (Quake ported to Rust): the       *)
(* NUL-terminated name parser (src/util.rs), the checked i32 widening      *)
(* (src/try_from_temp.rs), the .pak parser (src/fs/pack.rs), the wad       *)
(* parser (src/wad/mod.rs), the bounded reader (src/fs/reader.rs) and the  *)
(* search-path resolver (src/fs/mod.rs).                                   *)
(*                                                                         *)
(* Bytes are naturals 0..255, byte strings and files are sequences of      *)
(* bytes, a reader position is a 0-based byte offset.                      *)
(***************************************************************************)
EXTENDS Integers, Sequences, FiniteSets, TLC

VARIABLES
    buf,        \* name model: the byte buffer handed to the name parser
    name_call,  \* name model: which parser ran ("none" before the call)
    name_res,   \* name model: the parser's Result
    img,        \* load model: the file at the path, as its writer laid it out
    load_call,  \* load model: which loader ran ("none" before the call)
    load_res,   \* load model: the loader's Result
    disk,       \* fs model: the directories under the base directory
    parms,      \* fs model: what Parms answers to FileSys::new
    fsys,       \* fs model: the Result of FileSys::new (Pending before the call)
    fs_name,    \* fs model: the name of the last load_file call
    fs_res,     \* fs model: the Result of the last load_file call
    fs_len,     \* fs model: fsr.len() in the last load_file call
    hnd,        \* reader model: a Pack's handle, its file's bytes and its offset
    readers,    \* reader model: the live FsReaders, oldest first
    rd_last,    \* reader model: the last read call (Pending before the first)
    wad_call,   \* wad model: the last call on the loaded Wad (op "none" before it)
    wad_res,    \* wad model: that call's Result
    cmd_text,   \* command model: CommandCenter's command buffer
    wait,       \* command model: CommandCenter's wait flag
    commands,   \* command model: the registered command names and their handlers
    cvars,      \* command model: the names of CvarManager's vars, oldest first
    cmd_call,   \* command model: the last call (op "idle" outside the model)
    cmd_res,    \* command model: that call's Result
    cmd_ran     \* command model: the lines the last execute_buffer executed

fsVars == <<disk, parms, fsys, fs_name, fs_res, fs_len>>
rdVars == <<hnd, readers, rd_last>>
wadVars == <<wad_call, wad_res>>
cmdVars == <<cmd_text, wait, commands, cvars, cmd_call, cmd_res, cmd_ran>>
vars == <<buf, name_call, name_res, img, load_call, load_res, fsVars, rdVars, wadVars, cmdVars>>

---------------------------------------------------------------------------
(* Result and Option values.                                               *)

Ok(v) == [tag |-> "Ok", val |-> v]
Err(e) == [tag |-> "Err", val |-> e]
IsOk(r) == r.tag = "Ok"
IsErr(r) == r.tag = "Err"

None == [some |-> FALSE, v |-> <<>>]
Some(x) == [some |-> TRUE, v |-> x]

\* `expr?` and then the rest of the function on the value: an Err returns at
\* once.
Try(r, Rest(_)) == IF IsErr(r) THEN r ELSE Rest(r.val)

\* `match expr { .. }` / `let x = expr; ..`: the arms on the value.
Match(x, Arms(_)) == Arms(x)

Pending == [tag |-> "Pending", val |-> <<>>]
NoFile == <<-1>>

Min(a, b) == IF a < b THEN a ELSE b

---------------------------------------------------------------------------
(* Bytes and text.                                                         *)

NUL == 0

\* buf.iter().position(|c| c == 0): the 1-based index of the first NUL, 0 if none.
position_nul(b) ==
    IF \E i \in 1..Len(b) : b[i] = NUL
    THEN CHOOSE i \in 1..Len(b) : b[i] = NUL /\ \A j \in 1..(i-1) : b[j] # NUL
    ELSE 0

IsCont(x) == x >= 128 /\ x <= 191

\* core::str::from_utf8: the length of the well-formed sequence that starts at
\* b[i], 0 when b[i] starts none.
Utf8SeqLen(b, i) ==
    LET n == Len(b)
        c == b[i]
        at(k) == IF i + k <= n THEN b[i + k] ELSE 0
    IN  IF c < 128 THEN 1
        ELSE IF c >= 194 /\ c <= 223
             THEN IF IsCont(at(1)) THEN 2 ELSE 0
        ELSE IF c >= 224 /\ c <= 239
             THEN IF /\ IsCont(at(1)) /\ IsCont(at(2))
                     /\ (c = 224 => at(1) >= 160)
                     /\ (c = 237 => at(1) <= 159)
                  THEN 3 ELSE 0
        ELSE IF c >= 240 /\ c <= 244
             THEN IF /\ IsCont(at(1)) /\ IsCont(at(2)) /\ IsCont(at(3))
                     /\ (c = 240 => at(1) >= 144)
                     /\ (c = 244 => at(1) <= 143)
                  THEN 4 ELSE 0
        ELSE 0

RECURSIVE Utf8ValidFrom(_, _)
Utf8ValidFrom(b, i) ==
    IF i > Len(b) THEN TRUE
    ELSE LET k == Utf8SeqLen(b, i)
         IN  IF k = 0 THEN FALSE ELSE Utf8ValidFrom(b, i + k)

\* CStr::to_str: the bytes as text, or a Utf8Error.
to_str(b) == IF Utf8ValidFrom(b, 1) THEN Ok(b) ELSE Err("Utf8Error")

\* The mutant takes bytes without a NUL as they are.
from_bytes_with_nul_lenient(b) ==
    LET p == position_nul(b)
    IN  IF p = 0 THEN Ok(b)
        ELSE IF p # Len(b) THEN Err("InteriorNul")
        ELSE Ok(SubSeq(b, 1, Len(b) - 1))

\* CStr::from_bytes_with_nul: the one NUL must be the last byte; the value is
\* the bytes before it.
from_bytes_with_nul(b) ==
    LET p == position_nul(b)
    IN  IF p = 0 THEN Err("NotNulTerminated")
        ELSE IF p # Len(b) THEN Err("InteriorNul")
        ELSE Ok(SubSeq(b, 1, Len(b) - 1))

\* The mutant slices up to the LAST NUL of the buffer instead of the first.
cstr_buf_to_string_lastnul(b) ==
    LET i == IF \E k \in 1..Len(b) : b[k] = NUL
             THEN CHOOSE k \in 1..Len(b) :
                      b[k] = NUL /\ \A j \in (k+1)..Len(b) : b[j] # NUL
             ELSE 0
        cstr_slice == IF i # 0 THEN SubSeq(b, 1, i) ELSE b
        cstr == from_bytes_with_nul(cstr_slice)
    IN  IF IsErr(cstr) THEN cstr ELSE to_str(cstr.val)

\* The mutant returns the text of a buffer that has no NUL.
cstr_buf_to_string_whole(b) ==
    LET i == position_nul(b)
    IN  IF i = 0 THEN to_str(b)
        ELSE Try(from_bytes_with_nul(SubSeq(b, 1, i)), LAMBDA cstr : to_str(cstr))

\* u8::to_ascii_lowercase and str::eq_ignore_ascii_case
to_ascii_lowercase(c) == IF c >= 65 /\ c <= 90 THEN c + 32 ELSE c
eq_ignore_ascii_case(a, b) ==
    /\ Len(a) = Len(b)
    /\ \A k \in 1..Len(a) : to_ascii_lowercase(a[k]) = to_ascii_lowercase(b[k])

\* util::cstr_buf_to_string
cstr_buf_to_string(b) ==
    LET i == position_nul(b)
        cstr_slice == IF i # 0 THEN SubSeq(b, 1, i) ELSE b
        cstr == from_bytes_with_nul(cstr_slice)
    IN  IF IsErr(cstr) THEN cstr ELSE to_str(cstr.val)

---------------------------------------------------------------------------
(* Little-endian signed 32-bit fields and their checked widening.          *)

\* The range of an i32.  TLC's own integers are 32 bits wide, so every value
\* below is computed without leaving that range.
I32_MIN == -2147483647 - 1
I32_MAX == -(I32_MIN + 1)

\* byteorder LittleEndian::read_i32 on a 4-byte slice: two's complement, low
\* byte first.
read_i32(b) ==
    LET low == b[1] + 256 * b[2] + 65536 * b[3]
    IN  IF b[4] >= 128 THEN (b[4] - 256) * 16777216 + low
        ELSE b[4] * 16777216 + low

\* The mutant is the plain cast `val as usize`: nothing is refused, a negative
\* value comes out as a large positive one (here the largest the model holds).
try_from_temp_cast(val) == Ok(IF val < 0 THEN I32_MAX ELSE val)

\* TryFromTemp<i32> for usize and for u64 (the two bodies are the same).
try_from_temp(val) ==
    IF val >= 0 THEN Ok(val) ELSE Err("TryFromIntError")

\* What a writer of the format stores for the i32 v: two's complement, low
\* byte first (\div and % round down, so this is right for v < 0 too).
write_i32(v) ==
    << v % 256, (v \div 256) % 256, (v \div 65536) % 256, (v \div 16777216) % 256 >>

---------------------------------------------------------------------------
(* Reading a file through a BufReader.                                     *)

\* Read::read_exact at byte offset pos: n bytes, or UnexpectedEof.
read_exact(f, pos, n) ==
    IF pos <= Len(f) - n
    THEN Ok([k \in 1..n |-> f[pos + k]])
    ELSE Err("UnexpectedEof")

---------------------------------------------------------------------------
(* fs::pack: the .pak parser.                                              *)

MAX_FILES_IN_PACK == 2048
HEADER_SIZE == 4 + 4 + 4
NAME_SIZE == 56
FILE_INFO_SIZE_ON_DISK == 56 + 4 + 4

PACK_ID == <<80, 65, 67, 75>>   \* b"PACK"
WAD2_ID == <<87, 65, 68, 50>>   \* b"WAD2"

\* The mutant accepts any id.
is_pack_id_any(header) == TRUE

\* &header[ID_SLICE] == b"PACK"
is_pack_id(header) == SubSeq(header, 1, 4) = PACK_ID

\* PackHeader::from, the reader at offset 0.
PackHeader_from(f) ==
    LET header == read_exact(f, 0, HEADER_SIZE)
    IN  IF IsErr(header) THEN header
        ELSE IF ~is_pack_id(header.val) THEN Err("Not a packfile header")
        ELSE LET dir_offset == try_from_temp(read_i32(SubSeq(header.val, 5, 8)))
                 dir_len == try_from_temp(read_i32(SubSeq(header.val, 9, 12)))
             IN  IF IsErr(dir_offset) THEN dir_offset
                 ELSE IF IsErr(dir_len) THEN dir_len
                 ELSE Ok([dir_offset |-> dir_offset.val, dir_len |-> dir_len.val])

\* FileInfo::from, the reader at offset pos.
FileInfo_from(f, pos) ==
    LET info == read_exact(f, pos, FILE_INFO_SIZE_ON_DISK)
    IN  IF IsErr(info) THEN info
        ELSE
        LET field == SubSeq(info.val, 1, NAME_SIZE)
            i == position_nul(field)
            name_slice == IF i # 0 THEN SubSeq(field, 1, i) ELSE field
            c_name == from_bytes_with_nul(name_slice)
            name == IF IsErr(c_name) THEN c_name ELSE to_str(c_name.val)
            offset == try_from_temp(read_i32(SubSeq(info.val, 57, 60)))
            size == try_from_temp(read_i32(SubSeq(info.val, 61, 64)))
        IN  IF IsErr(name) THEN name
            ELSE IF IsErr(offset) THEN offset
            ELSE IF IsErr(size) THEN size
            ELSE Ok([name |-> name.val, offset |-> offset.val, size |-> size.val])

\* The mutant refuses a directory of exactly MAX_FILES_IN_PACK records.
too_many_files_ge(num_pack_files) == num_pack_files >= MAX_FILES_IN_PACK

\* num_pack_files > MAX_FILES_IN_PACK
too_many_files(num_pack_files) == num_pack_files > MAX_FILES_IN_PACK

\* Pack::load(path), f the bytes File::open(path) finds, NoFile when the open
\* fails.  The Pack keeps its path, its reader (here: the reader's offset)
\* and the parsed file_infos.
Pack_load(path, f) ==
    IF f = NoFile THEN Ok(None)
    ELSE
    LET header == PackHeader_from(f)
    IN  IF IsErr(header) THEN header
        ELSE
        LET num_pack_files == header.val.dir_len \div FILE_INFO_SIZE_ON_DISK
        IN  IF too_many_files(num_pack_files) THEN Err("too many files in pack")
            ELSE
            \* reader.seek(SeekFrom::Start(dir_offset)), then record after record;
            \* every read from an offset past the end of the file fails.
            LET infos == [k \in 1..num_pack_files |->
                            IF header.val.dir_offset > Len(f) THEN Err("UnexpectedEof")
                            ELSE FileInfo_from(f, header.val.dir_offset
                                                  + (k - 1) * FILE_INFO_SIZE_ON_DISK)]
                bad == {k \in 1..num_pack_files : IsErr(infos[k])}
            IN  IF bad # {}
                THEN infos[CHOOSE k \in bad : \A j \in bad : k <= j]
                ELSE Ok(Some([file_path |-> path,
                              reader |-> header.val.dir_offset
                                         + num_pack_files * FILE_INFO_SIZE_ON_DISK,
                              file_infos |-> [k \in 1..num_pack_files |-> infos[k].val]]))

---------------------------------------------------------------------------
(* wad: the lump container parser.                                         *)

LUMP_INFO_SIZE == 4 + 4 + 4 + 1 + 1 + 1 + 1 + 16

Panic(e) == [tag |-> "Panic", val |-> e]
IsPanic(r) == r.tag = "Panic"

\* Compression::try_from
Compression_try_from(n) ==
    IF n = 0 THEN Ok("None")
    ELSE IF n = 1 THEN Ok("Lzss")
    ELSE Err("Invalid compression type")

\* The mutant takes an unknown code for LumpType::None.
LumpType_try_from_default(n) ==
    IF n = 1 THEN Ok("Label")
    ELSE IF n = 64 THEN Ok("Palette")
    ELSE IF n = 65 THEN Ok("Qtex")
    ELSE IF n = 66 THEN Ok("Qpic")
    ELSE IF n = 67 THEN Ok("Sound")
    ELSE IF n = 68 THEN Ok("Miptex")
    ELSE Ok("None")

\* LumpType::try_from
LumpType_try_from(n) ==
    IF n = 0 THEN Ok("None")
    ELSE IF n = 1 THEN Ok("Label")
    ELSE IF n = 64 THEN Ok("Palette")
    ELSE IF n = 65 THEN Ok("Qtex")
    ELSE IF n = 66 THEN Ok("Qpic")
    ELSE IF n = 67 THEN Ok("Sound")
    ELSE IF n = 68 THEN Ok("Miptex")
    ELSE Err("Invalid lump type")

\* WadInfo::from
WadInfo_from(data) ==
    IF Len(data) < HEADER_SIZE THEN Err("Invalid wad header: too short")
    ELSE IF SubSeq(data, 1, 4) # WAD2_ID THEN Err("Invalid wad header: no WAD2 id")
    ELSE LET num_lumps == try_from_temp(read_i32(SubSeq(data, 5, 8)))
             lump_table_offset == try_from_temp(read_i32(SubSeq(data, 9, 12)))
         IN  IF IsErr(num_lumps) THEN num_lumps
             ELSE IF IsErr(lump_table_offset) THEN lump_table_offset
             ELSE Ok([num_lumps |-> num_lumps.val,
                      lump_table_offset |-> lump_table_offset.val])

\* LumpInfo::from on the bytes of one record.
LumpInfo_from(data) ==
    IF Len(data) # LUMP_INFO_SIZE THEN Err("Invalid lump info size")
    ELSE
    LET file_pos == try_from_temp(read_i32(SubSeq(data, 1, 4)))
        disk_size == try_from_temp(read_i32(SubSeq(data, 5, 8)))
        size == try_from_temp(read_i32(SubSeq(data, 9, 12)))
        lump_type == LumpType_try_from(data[13])
        compression == Compression_try_from(data[14])
        name == cstr_buf_to_string(SubSeq(data, 17, 32))
    IN  IF IsErr(file_pos) THEN file_pos
        ELSE IF IsErr(disk_size) THEN disk_size
        ELSE IF IsErr(size) THEN size
        ELSE IF IsErr(lump_type) THEN lump_type
        ELSE IF IsErr(compression) THEN compression
        ELSE IF IsErr(name) THEN name
        ELSE Ok([file_pos |-> file_pos.val, disk_size |-> disk_size.val,
                 size |-> size.val, lump_type |-> lump_type.val,
                 compression |-> compression.val, name |-> name.val])

\* Wad::load_from_file, loaded the Result of fs.load_file(file_name).  The loop
\* takes the records in table order: the slice data[off+32i .. off+32i+32]
\* panics when it does not lie in the buffer, LumpInfo::from may fail.  fit is
\* the number of whole records between the table offset and the end of data.
Wad_load_from_file(loaded) ==
    IF IsErr(loaded) THEN loaded
    ELSE IF ~loaded.val.some THEN Err("no such file")
    ELSE
    LET data == loaded.val.v
        info == WadInfo_from(data)
    IN  IF IsErr(info) THEN info
        ELSE
        LET num == info.val.num_lumps
            off == info.val.lump_table_offset
            fit == IF off <= Len(data) THEN (Len(data) - off) \div LUMP_INFO_SIZE ELSE 0
            n == Min(num, fit)
            lumps == [k \in 1..n |->
                        LumpInfo_from([j \in 1..LUMP_INFO_SIZE |->
                                          data[off + (k - 1) * LUMP_INFO_SIZE + j]])]
            bad == {k \in 1..n : IsErr(lumps[k])}
        IN  IF bad # {} THEN lumps[CHOOSE k \in bad : \A j \in bad : k <= j]
            ELSE IF num > fit THEN Panic("range end index out of range for slice")
            ELSE Ok([data |-> data, info |-> info.val,
                     lumps |-> [k \in 1..n |-> lumps[k].val]])

\* &data[start .. start + size]: the slice, or the panic of a range that
\* does not lie in the buffer.
Slice(data, start, size) ==
    IF start > Len(data) \/ size > Len(data) - start
    THEN Panic("range end index out of range for slice")
    ELSE Ok(SubSeq(data, start + 1, start + size))

\* The mutant compares names byte for byte.
Wad_lump_info_exact(wad, name) ==
    LET hits == {k \in 1..Len(wad.lumps) : wad.lumps[k].name = name}
    IN  IF hits = {} THEN Err("No lump named")
        ELSE Ok(wad.lumps[CHOOSE k \in hits : \A j \in hits : k <= j])

\* Wad::lump_info
Wad_lump_info(wad, name) ==
    LET hits == {k \in 1..Len(wad.lumps) : eq_ignore_ascii_case(wad.lumps[k].name, name)}
    IN  IF hits = {} THEN Err("No lump named")
        ELSE Ok(wad.lumps[CHOOSE k \in hits : \A j \in hits : k <= j])

\* The mutant takes as many bytes as the lump has once uncompressed.
Wad_data_for_lump_named_size(wad, name) ==
    Try(Wad_lump_info(wad, name),
        LAMBDA lump : Slice(wad.data, lump.file_pos, lump.size))

\* Wad::data_for_lump_named
Wad_data_for_lump_named(wad, name) ==
    Try(Wad_lump_info(wad, name),
        LAMBDA lump : Slice(wad.data, lump.file_pos, lump.disk_size))

\* Wad::data_for_lump_num; n counts from 0, &self.lumps[n] panics when n is
\* not below the number of lumps.
Wad_data_for_lump_num(wad, n) ==
    IF n > wad.info.num_lumps THEN Err("Bad lump number")
    ELSE IF n >= Len(wad.lumps) THEN Panic("index out of bounds")
    ELSE Slice(wad.data, wad.lumps[n + 1].file_pos, wad.lumps[n + 1].disk_size)

---------------------------------------------------------------------------
(* The files on disk.  An image describes what a writer of the format put  *)
(* in the file: the header fields as integers, the bytes between header   *)
(* and table, the table's records (recs, followed by `more` copies of the *)
(* plain record), and the length the file was cut to (-1: not cut).       *)
(* write_image gives the file's bytes, which is all the loaders see.      *)

MaxRecs == 2
MaxBufLen == 3

\* s followed by fill bytes up to width w.
Pad(s, w, fill) == [k \in 1..w |-> IF k <= Len(s) THEN s[k] ELSE fill]

RECURSIVE Concat(_)
Concat(ss) == IF Len(ss) = 0 THEN <<>> ELSE Head(ss) \o Concat(Tail(ss))

PackRec(text, fill, offset, size) ==
    [text |-> text, fill |-> fill, offset |-> offset, size |-> size]

LumpRec(text, fill, file_pos, disk_size, size, type, compression) ==
    [text |-> text, fill |-> fill, file_pos |-> file_pos, disk_size |-> disk_size,
     size |-> size, type |-> type, compression |-> compression]

\* A record with nothing special: the name "a" (lump: "d"), NUL padded.
PlainPackRec == PackRec(<<97>>, 0, 12, 3)
PlainLumpRec == LumpRec(<<100>>, 0, 12, 2, 2, 66, 0)

\* One 64-byte pack directory record.
write_pack_rec(r) ==
    Pad(r.text, NAME_SIZE, r.fill) \o write_i32(r.offset) \o write_i32(r.size)

\* One 32-byte lump table record.
write_lump_rec(r) ==
    write_i32(r.file_pos) \o write_i32(r.disk_size) \o write_i32(r.size)
        \o <<r.type, r.compression, 0, 0>> \o Pad(r.text, 16, r.fill)

\* n records, record k being recs[k], as one byte string of n * w bytes.
write_table(recs, w) ==
    [k \in 1..(Len(recs) * w) |-> recs[((k - 1) \div w) + 1][((k - 1) % w) + 1]]

\* The records of an image's table, in table order.
NumRecs(im) == Len(im.recs) + im.more
RecAt(im, k) ==
    IF k <= Len(im.recs) THEN im.recs[k]
    ELSE IF im.kind = "pack" THEN PlainPackRec ELSE PlainLumpRec

write_image(im) ==
    LET hdr == IF im.kind = "pack"
               THEN im.id \o write_i32(im.dir_offset) \o write_i32(im.dir_len)
               ELSE im.id \o write_i32(im.num_lumps) \o write_i32(im.lump_table_offset)
        table == IF im.kind = "pack"
                 THEN write_table([k \in 1..NumRecs(im) |-> write_pack_rec(RecAt(im, k))],
                                  FILE_INFO_SIZE_ON_DISK)
                 ELSE write_table([k \in 1..NumRecs(im) |-> write_lump_rec(RecAt(im, k))],
                                  LUMP_INFO_SIZE)
        full == hdr \o im.data \o table
    IN  IF im.kind = "none" THEN NoFile
        ELSE IF im.cut < 0 THEN full
        ELSE SubSeq(full, 1, Min(im.cut, Len(full)))

\* Where the writer put the table, and the length of the file written.
TableOffset(im) == HEADER_SIZE + Len(im.data)
FileLen(im) ==
    LET w == IF im.kind = "pack" THEN FILE_INFO_SIZE_ON_DISK ELSE LUMP_INFO_SIZE
        full == TableOffset(im) + NumRecs(im) * w
    IN  IF im.kind = "none" THEN 0
        ELSE IF im.cut < 0 THEN full
        ELSE Min(im.cut, full)

SeqsUpTo(S, n) == UNION {[1..k -> S] : k \in 0..n}

\* i32 values at and around the boundaries of the widening.
I32Edge == {I32_MIN, -1, 0, I32_MAX}

\* Directory records: two plain names, junk after the NUL, no NUL at all,
\* bytes that are no text, and the edge values in offset and size.
PackRecs ==
    { PlainPackRec, PackRec(<<98>>, 0, 13, 1),
      PackRec(<<97, 0, 120, 0, 121>>, 122, 12, 0),
      PackRec(<<97>>, 120, 12, 1), PackRec(<<255>>, 0, 12, 1) }
    \cup { PackRec(<<97>>, 0, v, 1) : v \in I32Edge }
    \cup { PackRec(<<97>>, 0, 12, v) : v \in I32Edge }

FileData == {<<>>, <<82, 73, 70, 70>>}

PackImage(id, off, len, data, recs, more, cut) ==
    [kind |-> "pack", id |-> id, dir_offset |-> off, dir_len |-> len,
     data |-> data, recs |-> recs, more |-> more, cut |-> cut]

\* The directory lengths a header may claim for a table of n records.
DirLens(n) ==
    { n * FILE_INFO_SIZE_ON_DISK, n * FILE_INFO_SIZE_ON_DISK + 63,
      (n + 1) * FILE_INFO_SIZE_ON_DISK, MAX_FILES_IN_PACK * FILE_INFO_SIZE_ON_DISK,
      (MAX_FILES_IN_PACK + 1) * FILE_INFO_SIZE_ON_DISK } \cup I32Edge

PackImages ==
    \* any records, a header that tells the truth or rounds the length up
    { PackImage(PACK_ID, HEADER_SIZE + Len(d), Len(recs) * FILE_INFO_SIZE_ON_DISK + x,
                d, recs, 0, -1) :
        d \in FileData, recs \in SeqsUpTo(PackRecs, MaxRecs), x \in {0, 63} }
    \* plain records, any header
    \cup { PackImage(id, off, len, <<>>, <<>>, n, -1) :
        id \in {PACK_ID, WAD2_ID, <<80, 65, 67, 0>>},
        off \in {HEADER_SIZE} \cup I32Edge,
        len \in UNION {DirLens(m) : m \in 0..MaxRecs}, n \in 0..MaxRecs }
    \* files cut short
    \cup { PackImage(id, HEADER_SIZE, FILE_INFO_SIZE_ON_DISK, <<>>, <<>>, 1, cut) :
        id \in {PACK_ID, WAD2_ID}, cut \in {0, 3, 4, 11, 12, 75} }
    \* a directory of exactly MAX_FILES_IN_PACK records, and one more
    \cup { PackImage(PACK_ID, HEADER_SIZE, len, <<>>, <<>>, n, -1) :
        n \in {MAX_FILES_IN_PACK, MAX_FILES_IN_PACK + 1},
        len \in {MAX_FILES_IN_PACK * FILE_INFO_SIZE_ON_DISK,
                 MAX_FILES_IN_PACK * FILE_INFO_SIZE_ON_DISK + 63,
                 (MAX_FILES_IN_PACK + 1) * FILE_INFO_SIZE_ON_DISK} }

LumpRecs ==
    { PlainLumpRec, LumpRec(<<68>>, 0, 12, 1, 4, 64, 1),
      LumpRec(<<100, 0, 120>>, 120, 12, 0, 0, 0, 0),
      LumpRec(<<100>>, 120, 12, 2, 2, 66, 0),
      LumpRec(<<100>>, 0, 12, 2, 2, 2, 0), LumpRec(<<100>>, 0, 12, 2, 2, 66, 2) }
    \cup { LumpRec(<<100>>, 0, v, 2, 2, 66, 0) : v \in I32Edge }
    \cup { LumpRec(<<100>>, 0, 12, v, 2, 66, 0) : v \in I32Edge }
    \cup { LumpRec(<<100>>, 0, 12, 2, v, 66, 0) : v \in I32Edge }

WadImage(id, num, off, data, recs, more, cut) ==
    [kind |-> "wad", id |-> id, num_lumps |-> num, lump_table_offset |-> off,
     data |-> data, recs |-> recs, more |-> more, cut |-> cut]

WadImages ==
    { WadImage(WAD2_ID, Len(recs), HEADER_SIZE + Len(d), d, recs, 0, -1) :
        d \in FileData, recs \in SeqsUpTo(LumpRecs, MaxRecs) }
    \cup { WadImage(id, num, off, <<>>, <<>>, n, -1) :
        id \in {WAD2_ID, PACK_ID}, num \in (0..(MaxRecs + 1)) \cup {I32_MIN, -1},
        off \in {HEADER_SIZE} \cup I32Edge, n \in 0..MaxRecs }
    \cup { WadImage(WAD2_ID, 1, HEADER_SIZE, <<>>, <<>>, 1, cut) :
        cut \in {0, 4, 11, 12, 43} }

NoImage == [kind |-> "none", recs |-> <<>>, more |-> 0]

Images == PackImages \cup WadImages \cup {NoImage}

---------------------------------------------------------------------------
(* The load model: one file on disk, one loader called on it.              *)

PakPath == "pak0.pak"

\* The fs model at rest, while another model runs.
FsIdle ==
    /\ disk = <<>>
    /\ parms = <<>>
    /\ fsys = Pending
    /\ fs_name = <<>>
    /\ fs_res = Pending
    /\ fs_len = 0

\* A call on a Wad: the method, and the name or the number it was given.
WadCall(op, name, n) == [op |-> op, name |-> name, n |-> n]

\* A call on the CommandCenter or the CvarManager: its name and its text or name
\* argument.
CmdCall(op, text) == [op |-> op, text |-> text]

\* State::new: CommandCenter::new() and CvarManager::new() (no text, no wait,
\* no command, no cvar).
CmdIdle ==
    /\ cmd_text = <<>>
    /\ wait = FALSE
    /\ commands = <<>>
    /\ cvars = <<>>
    /\ cmd_call = CmdCall("idle", <<>>)
    /\ cmd_res = Pending
    /\ cmd_ran = <<>>

\* The reader model and the wad model at rest, while another model runs.
RdIdle ==
    /\ hnd = <<>>
    /\ readers = <<>>
    /\ rd_last = Pending
    /\ wad_call = WadCall("idle", <<>>, -1)
    /\ wad_res = Pending
    /\ CmdIdle

\* The bytes of the file at the path, NoFile when there is none.
File == write_image(img)

InitLoad ==
    /\ img \in Images
    /\ load_call = "none"
    /\ load_res = Pending
    /\ buf = <<>>
    /\ name_call = "idle"
    /\ name_res = Pending
    /\ FsIdle
    /\ RdIdle

\* Pack::load(path) on the file.
CallPackLoad ==
    /\ load_call = "none"
    /\ load_call' = "Pack::load"
    /\ load_res' = Pack_load(PakPath, File)
    /\ UNCHANGED <<img, buf, name_call, name_res, fsVars, rdVars, wadVars, cmdVars>>

\* Wad::load_from_file(name, fs), fs.load_file(name) yielding the whole file,
\* or Ok(None) when there is none.
CallWadLoad ==
    /\ load_call = "none"
    /\ load_call' = "Wad::load_from_file"
    /\ load_res' = Wad_load_from_file(IF File = NoFile THEN Ok(None) ELSE Ok(Some(File)))
    /\ UNCHANGED <<img, buf, name_call, name_res, fsVars, rdVars, wadVars, cmdVars>>

NextLoad == CallPackLoad \/ CallWadLoad

SpecLoad == InitLoad /\ [][NextLoad]_vars

---------------------------------------------------------------------------
(* fs: the search path.                                                    *)
(*                                                                         *)
(* A path is a sequence of components and a component a sequence of        *)
(* pieces: the directory name "id1" is <<"id1">>, the file name            *)
(* format!("pak{}.pak", i) is <<"pak", i, ".pak">>, a resource name is its *)
(* byte string.  The disk maps each directory name under Root to the       *)
(* directory's loose files (resource name -> content) and its numbered pak *)
(* files (paks[i + 1] is pak<i>.pak, NoImage when the file does not        *)
(* exist); any other path names nothing.                                   *)

GAMENAME == "id1"
Root == << <<"quake">> >>

Push(path, c) == Append(path, c)
PakFileName(i) == <<"pak", i, ".pak">>

\* The path names a directory of the disk: Root/<dir>.
IsDiskDir(dsk, path) ==
    /\ Len(path) = Len(Root) + 1
    /\ SubSeq(path, 1, Len(Root)) = Root
    /\ Len(path[Len(path)]) = 1
    /\ path[Len(path)][1] \in DOMAIN dsk

DiskDir(dsk, path) == dsk[path[Len(path)][1]]

\* File::open(path) on a pak file: the image at Root/<dir>/pak<i>.pak,
\* NoImage when no such file exists.
OpenPak(dsk, path) ==
    LET n == Len(path)
    IN  IF /\ n = Len(Root) + 2
           /\ IsDiskDir(dsk, SubSeq(path, 1, n - 1))
           /\ Len(path[n]) = 3
           /\ path[n][1] = "pak"
           /\ path[n][3] = ".pak"
           /\ path[n][2] + 1 \in 1..Len(DiskDir(dsk, SubSeq(path, 1, n - 1)).paks)
        THEN DiskDir(dsk, SubSeq(path, 1, n - 1)).paks[path[n][2] + 1]
        ELSE NoImage

\* Path::is_file on dir/name: a loose file of that name in a disk directory.
is_file(dsk, dir, name) ==
    /\ IsDiskDir(dsk, dir)
    /\ name \in DOMAIN DiskDir(dsk, dir).loose

\* The content of the loose file dir/name.
LooseContent(dsk, dir, name) == DiskDir(dsk, dir).loose[name]

\* str::ends_with(".pak") on the path the user gave.
ends_with_pak(path) ==
    LET c == path[Len(path)]
    IN  c[Len(c)] = ".pak"

Directory(path) == [kind |-> "Directory", path |-> path, pak |-> <<>>]
PackEntry(pak) == [kind |-> "Pack", path |-> pak.file_path, pak |-> pak]

\* Pack::load(path) on the disk.
LoadPak(dsk, path) == Pack_load(path, write_image(OpenPak(dsk, path)))

\* The scan of add_game_dir from pak<i>.pak on: the search paths with the
\* packs appended, or the error of the first pak that does not parse.
RECURSIVE ScanPaks(_, _, _, _)
ScanPaks(dsk, dir, i, search_paths) ==
    Try(LoadPak(dsk, Push(dir, PakFileName(i))),
        LAMBDA pak : IF ~pak.some THEN Ok(search_paths)
                     ELSE ScanPaks(dsk, dir, i + 1,
                                   Append(search_paths, PackEntry(pak.v))))

\* The mutant goes on scanning after the first missing pak.
add_game_dir_past_gap(fs, dsk, path) ==
    Try(ScanPaks(dsk, path, 0, Append(fs.search_paths, Directory(path))),
        LAMBDA scanned :
            Try(ScanPaks(dsk, path, Len(scanned) - Len(fs.search_paths), scanned),
                LAMBDA again :
                    Ok([fs EXCEPT !.search_paths = again, !.game_dir = path])))

\* The mutant pushes the directory after its paks.
add_game_dir_dir_last(fs, dsk, path) ==
    Try(ScanPaks(dsk, path, 0, fs.search_paths),
        LAMBDA scanned :
            Ok([fs EXCEPT !.search_paths = Append(scanned, Directory(path)),
                          !.game_dir = path]))

\* The mutant keeps the directory and drops its paks when one does not parse.
add_game_dir_best_effort(fs, dsk, path) ==
    Match(ScanPaks(dsk, path, 0, Append(fs.search_paths, Directory(path))),
          LAMBDA scanned :
              Ok([fs EXCEPT !.search_paths = IF IsErr(scanned)
                                             THEN Append(fs.search_paths, Directory(path))
                                             ELSE scanned.val,
                            !.game_dir = path]))

\* FileSys::add_game_dir
add_game_dir(fs, dsk, path) ==
    Try(ScanPaks(dsk, path, 0, Append(fs.search_paths, Directory(path))),
        LAMBDA scanned :
            Ok([fs EXCEPT !.search_paths = scanned, !.game_dir = path]))

\* `if cond { self.add_game_dir(path)?; }` on the Result so far.
AddIf(r, cond, dsk, path) ==
    IF IsErr(r) \/ ~cond THEN r ELSE add_game_dir(r.val, dsk, path)

\* The mutant takes a -path pak that does not exist as a directory.
PathEntry_missing_ok(dsk, path) ==
    IF ends_with_pak(path) /\ OpenPak(dsk, path) # NoImage
    THEN Try(LoadPak(dsk, path), LAMBDA pak : Ok(PackEntry(pak.v)))
    ELSE Ok(Directory(path))

\* The mutant refuses a -path directory that does not exist.
PathEntry_dir_checked(dsk, path) ==
    IF ends_with_pak(path)
    THEN Try(LoadPak(dsk, path),
             LAMBDA pak : IF ~pak.some THEN Err("Couldn't load packfile")
                          ELSE Ok(PackEntry(pak.v)))
    ELSE IF IsDiskDir(dsk, path) THEN Ok(Directory(path))
    ELSE Err("Couldn't find directory")

\* `let search = match path.ends_with(".pak") { .. }`: the entry for one -path
\* value, a Pack (which must load) or a Directory.
PathEntry(dsk, path) ==
    IF ends_with_pak(path)
    THEN Try(LoadPak(dsk, path),
             LAMBDA pak : IF ~pak.some THEN Err("Couldn't load packfile")
                          ELSE Ok(PackEntry(pak.v)))
    ELSE Ok(Directory(path))

\* The loop over the -path values: each one's entry is pushed.
RECURSIVE PathOverrides(_, _, _)
PathOverrides(fs, dsk, overrides) ==
    IF Len(overrides) = 0 THEN Ok(fs)
    ELSE Try(PathEntry(dsk, Head(overrides)),
             LAMBDA search :
                 PathOverrides([fs EXCEPT !.search_paths = Append(@, search)],
                               dsk, Tail(overrides)))

\* `if let Some(path_overrides) = parms.values("-path") { .. }`
PathIf(r, prm, dsk) ==
    IF IsErr(r) \/ ~prm.path.some THEN r ELSE PathOverrides(r.val, dsk, prm.path.v)

\* The mutant adds the -game directory before the others.
init_game_first(fs, prm, dsk) ==
    LET basedir == IF prm.basedir.some THEN prm.basedir.v ELSE prm.cwd
        subdir(d) == Push(basedir, <<d>>)
        r1 == AddIf(Ok(fs), prm.game.some, dsk, subdir(prm.game.v))
        r2 == AddIf(r1, TRUE, dsk, subdir(GAMENAME))
        r3 == AddIf(r2, prm.is_rogue, dsk, subdir("rogue"))
        r4 == AddIf(r3, prm.is_hipnotic, dsk, subdir("hipnotic"))
    IN  PathIf(r4, prm, dsk)

\* FileSys::init
init(fs, prm, dsk) ==
    LET basedir == IF prm.basedir.some THEN prm.basedir.v ELSE prm.cwd
        subdir(d) == Push(basedir, <<d>>)
        r1 == add_game_dir(fs, dsk, subdir(GAMENAME))
        r2 == AddIf(r1, prm.is_rogue, dsk, subdir("rogue"))
        r3 == AddIf(r2, prm.is_hipnotic, dsk, subdir("hipnotic"))
        r4 == AddIf(r3, prm.game.some, dsk, subdir(prm.game.v))
    IN  PathIf(r4, prm, dsk)

\* FileSys::new
FileSys_new(prm, dsk) ==
    init([game_dir |-> <<>>, use_proghack |-> prm.proghack, search_paths |-> <<>>],
         prm, dsk)

---------------------------------------------------------------------------
(* fs: readers, find_file and load_file.                                   *)
(*                                                                         *)
(* An FsReader is its backing bytes, the backing handle's offset, len and  *)
(* n_read; entry is the index of the search path whose Pack lent the       *)
(* handle, 0 when the reader owns its file.                                *)

ReadChunk == 3

\* FsReader::for_file
FsReader_for_file(content) ==
    Ok([inner |-> "Owned", entry |-> 0, bytes |-> content, pos |-> 0,
        len |-> Len(content), n_read |-> 0])

\* The mutant takes everything from info.offset to the end of the pack file.
FsReader_for_pack_file_to_end(reader, info) ==
    Ok([inner |-> "Borrowed", entry |-> 0, bytes |-> reader.bytes,
        pos |-> info.offset,
        len |-> IF Len(reader.bytes) > info.offset
                THEN Len(reader.bytes) - info.offset ELSE 0,
        n_read |-> 0])

\* FsReader::for_pack_file: the pack's handle is a file's bytes and an offset
\* into them; the seek moves that offset to info.offset.
FsReader_for_pack_file(reader, info) ==
    Ok([inner |-> "Borrowed", entry |-> 0, bytes |-> reader.bytes,
        pos |-> info.offset, len |-> info.size, n_read |-> 0])

\* FsReader::len
FsReader_len(r) == r.len

\* The backing BufReader's read into a buffer of want bytes.  k is what the
\* handle does on this call: it fails when k < 0, and otherwise delivers up to
\* k of the bytes left between its offset and the end of the file.
br_read(r, want, k) ==
    LET avail == IF r.pos >= Len(r.bytes) THEN 0 ELSE Len(r.bytes) - r.pos
    IN  IF k < 0 THEN Err("io")
        ELSE Ok(SubSeq(r.bytes, r.pos + 1, r.pos + Min(Min(want, k), avail)))

\* The mutant hands the caller's whole buffer to the backing handle.
FsReader_read_unclipped(r, buf_len, k) ==
    LET remain == r.len - r.n_read
    IN  IF remain = 0
        THEN [reader |-> r, res |-> Ok(0), out |-> <<>>, asked |-> -1]
        ELSE Match(br_read(r, buf_len, k),
                   LAMBDA got :
                       IF IsErr(got)
                       THEN [reader |-> r, res |-> got, out |-> <<>>,
                             asked |-> buf_len]
                       ELSE [reader |-> [r EXCEPT !.pos = @ + Len(got.val),
                                                  !.n_read = @ + Len(got.val)],
                             res |-> Ok(Len(got.val)), out |-> got.val,
                             asked |-> buf_len])

\* The mutant counts the bytes it asked for, not the bytes it was given.
FsReader_read_counts_asked(r, buf_len, k) ==
    LET remain == r.len - r.n_read
        want == Min(buf_len, remain)
    IN  IF remain = 0
        THEN [reader |-> r, res |-> Ok(0), out |-> <<>>, asked |-> -1]
        ELSE Match(br_read(r, want, k),
                   LAMBDA got :
                       IF IsErr(got)
                       THEN [reader |-> r, res |-> got, out |-> <<>>,
                             asked |-> want]
                       ELSE [reader |-> [r EXCEPT !.pos = @ + Len(got.val),
                                                  !.n_read = @ + want],
                             res |-> Ok(Len(got.val)), out |-> got.val,
                             asked |-> want])

\* FsReader::read into a buffer of buf_len bytes: the reader afterwards, the
\* Result, the bytes written, and the size of the buffer handed to the backing
\* handle (-1 when the handle is not called).
FsReader_read(r, buf_len, k) ==
    LET remain == r.len - r.n_read
        want == Min(buf_len, remain)
    IN  IF remain = 0
        THEN [reader |-> r, res |-> Ok(0), out |-> <<>>, asked |-> -1]
        ELSE Match(br_read(r, want, k),
                   LAMBDA got :
                       IF IsErr(got)
                       THEN [reader |-> r, res |-> got, out |-> <<>>,
                             asked |-> want]
                       ELSE [reader |-> [r EXCEPT !.pos = @ + Len(got.val),
                                                  !.n_read = @ + Len(got.val)],
                             res |-> Ok(Len(got.val)), out |-> got.val,
                             asked |-> want])

\* Read::read_to_end over a handle that fills every buffer it is given: read
\* after read until one returns 0 bytes.
RECURSIVE read_to_end(_, _)
read_to_end(r, acc) ==
    Match(FsReader_read(r, ReadChunk, ReadChunk),
          LAMBDA step : IF Len(step.out) = 0 THEN [reader |-> step.reader, buf |-> acc]
                        ELSE read_to_end(step.reader, acc \o step.out))

\* The mutant matches names whatever their letter case.
Pack_file_any_case(dsk, pak, name) ==
    LET hits == {k \in 1..Len(pak.file_infos) :
                    eq_ignore_ascii_case(pak.file_infos[k].name, name)}
    IN  IF hits = {} THEN Ok(None)
        ELSE Try(FsReader_for_pack_file(
                    [bytes |-> write_image(OpenPak(dsk, pak.file_path)),
                     pos |-> pak.reader],
                    pak.file_infos[CHOOSE k \in hits : \A j \in hits : k <= j]),
                 LAMBDA reader : Ok(Some(reader)))

\* Pack::file(name): the first record of that exact name, read through the
\* pack's own handle.
Pack_file(dsk, pak, name) ==
    LET hits == {k \in 1..Len(pak.file_infos) : pak.file_infos[k].name = name}
    IN  IF hits = {} THEN Ok(None)
        ELSE Try(FsReader_for_pack_file(
                    [bytes |-> write_image(OpenPak(dsk, pak.file_path)),
                     pos |-> pak.reader],
                    pak.file_infos[CHOOSE k \in hits : \A j \in hits : k <= j]),
                 LAMBDA reader : Ok(Some(reader)))

\* search_paths.iter_mut().rev().skip(skip_n), as the indices it visits.
rev_skip(n, skip_n) ==
    [k \in 1..(IF n > skip_n THEN n - skip_n ELSE 0) |-> n - skip_n + 1 - k]

\* The loop of find_file over the indices still to visit.
RECURSIVE Walk(_, _, _, _)
Walk(fs0, dsk, name, order) ==
    IF Len(order) = 0 THEN Ok(None)
    ELSE IF fs0.search_paths[Head(order)].kind = "Pack"
    THEN Try(Pack_file(dsk, fs0.search_paths[Head(order)].pak, name),
             LAMBDA found :
                 IF found.some THEN Ok(Some([found.v EXCEPT !.entry = Head(order)]))
                 ELSE Walk(fs0, dsk, name, Tail(order)))
    ELSE IF is_file(dsk, fs0.search_paths[Head(order)].path, name)
    THEN Try(FsReader_for_file(
                LooseContent(dsk, fs0.search_paths[Head(order)].path, name)),
             LAMBDA reader : Ok(Some(reader)))
    ELSE Walk(fs0, dsk, name, Tail(order))

\* The mutant walks from the first-pushed entry to the last-pushed one.
find_file_forward(fs0, dsk, name) ==
    LET skip_n == IF fs0.use_proghack THEN 1 ELSE 0
        n == Len(fs0.search_paths)
    IN  Walk(fs0, dsk, name, [k \in 1..(IF n > skip_n THEN n - skip_n ELSE 0) |-> k])

\* The mutant skips two entries when the flag is set.
find_file_skip_two(fs0, dsk, name) ==
    LET skip_n == IF fs0.use_proghack THEN 2 ELSE 0
    IN  Walk(fs0, dsk, name, rev_skip(Len(fs0.search_paths), skip_n))

\* FileSys::find_file
find_file(fs0, dsk, name) ==
    LET skip_n == IF fs0.use_proghack THEN 1 ELSE 0
    IN  Walk(fs0, dsk, name, rev_skip(Len(fs0.search_paths), skip_n))

\* The mutant takes the pack that lent its handle off the search path.
Release_drops_entry(fs0, r) ==
    IF r.inner = "Borrowed"
    THEN [fs0 EXCEPT !.search_paths =
                        SubSeq(@, 1, r.entry - 1) \o SubSeq(@, r.entry + 1, Len(@))]
    ELSE fs0

\* The FileSys once a reader is dropped: a borrowed handle stays where the
\* reader left it.
Release(fs0, r) ==
    IF r.inner = "Borrowed"
    THEN [fs0 EXCEPT !.search_paths[r.entry].pak.reader = r.pos]
    ELSE fs0

\* FileSys::load_file: the FileSys afterwards, the Result, and the capacity
\* the buffer was allocated with (fsr.len(), 0 when there is no reader).
load_file(fs0, dsk, name) ==
    Match(find_file(fs0, dsk, name),
          LAMBDA found :
              IF IsErr(found) THEN [fs |-> fs0, res |-> found, len |-> 0]
              ELSE IF ~found.val.some
              THEN [fs |-> fs0, res |-> Ok(None), len |-> 0]
              ELSE Match(read_to_end(found.val.v, <<>>),
                         LAMBDA done : [fs |-> Release(fs0, done.reader),
                                        res |-> Ok(Some(done.buf)),
                                        len |-> FsReader_len(found.val.v)]))

---------------------------------------------------------------------------
(* The fs model: a disk, a command line, FileSys::new, then load_file.     *)

NameA == <<97>>
NameB == <<98>>
Names == {NameA, NameB}

\* A well-formed pak holding the data and a directory of the records.
GoodPak(data, recs) ==
    PackImage(PACK_ID, HEADER_SIZE + Len(data), Len(recs) * FILE_INFO_SIZE_ON_DISK,
              data, recs, 0, -1)

\* The pak files of the model by shape; every file stored in one starts with
\* the pak's own tag byte.  The entry of the "long" pak declares more bytes
\* than the whole pak file holds.
FsPak(shape, tag) ==
    CASE shape = "none" -> NoImage
      [] shape = "bad" -> PackImage(WAD2_ID, HEADER_SIZE, 0, <<>>, <<>>, 0, -1)
      [] shape = "short" -> PackImage(PACK_ID, HEADER_SIZE, FILE_INFO_SIZE_ON_DISK,
                                      <<>>, <<>>, 1, 20)
      [] shape = "e" -> GoodPak(<<>>, <<>>)
      [] shape = "a" -> GoodPak(<<tag>>, <<PackRec(NameA, 0, 12, 1)>>)
      [] shape = "b" -> GoodPak(<<tag, 82>>, <<PackRec(NameB, 0, 12, 2)>>)
      [] shape = "long" -> GoodPak(<<tag, 82>>, <<PackRec(NameB, 0, 13, 200)>>)
      [] shape = "ab" -> GoodPak(<<tag, 82>>, <<PackRec(NameA, 0, 12, 1),
                                                PackRec(NameB, 0, 12, 2)>>)
      [] shape = "dup" -> GoodPak(<<tag, 82, 73, 70>>,
                                  <<PackRec(NameA, 0, 12, 1), PackRec(NameA, 0, 13, 3)>>)

\* A directory: loose files of the given names and pak<i>.pak of shape
\* shapes[i + 1]; every loose file starts with the directory's tag byte.
DiskDirOf(tag, loose, shapes) ==
    [loose |-> [n \in loose |-> IF n = NameA THEN <<tag>> ELSE <<tag, 82>>],
     paks |-> [i \in 1..Len(shapes) |-> FsPak(shapes[i], tag + i)]]

Id1Paks ==
    { <<>>, <<"a">>, <<"e", "a">>, <<"ab", "e">>, <<"a", "a">>, <<"a", "none", "a">>,
      <<"bad">>, <<"a", "bad">>, <<"dup", "b", "a">> }

Id1Dirs == { DiskDirOf(10, l, p) : l \in {{}, {NameA}, {NameA, NameB}}, p \in Id1Paks }
RogueDirs ==
    { DiskDirOf(20, {NameB}, <<"a", "none", "short">>), DiskDirOf(20, {NameA}, <<>>) }
HipnoticDirs == { DiskDirOf(30, {NameA}, <<"b">>) }
ModDirs == { DiskDirOf(40, {NameA, NameB}, <<>>), DiskDirOf(40, {NameA}, <<"long", "a">>) }

Disks ==
    { [id1 |-> i, rogue |-> r, hipnotic |-> h, mod |-> m] :
        i \in Id1Dirs, r \in RogueDirs, h \in HipnoticDirs, m \in ModDirs }
    \cup { [id1 |-> i, rogue |-> r, hipnotic |-> h] :
        i \in Id1Dirs, r \in RogueDirs, h \in HipnoticDirs }

Elsewhere == << <<"home">> >>

PathLists ==
    { None,
      Some(<< Push(Root, <<"id1">>) >>),
      Some(<< Push(Root, <<"mod">>), Push(Push(Root, <<"id1">>), PakFileName(0)) >>),
      Some(<< Push(Push(Root, <<"id1">>), PakFileName(7)) >>),
      Some(<< Push(Push(Root, <<"rogue">>), PakFileName(2)) >>) }

ParmsSet ==
    { [basedir |-> b.basedir, cwd |-> b.cwd, is_rogue |-> r, is_hipnotic |-> h,
       game |-> g, path |-> p, proghack |-> k] :
        b \in { [basedir |-> Some(Root), cwd |-> Elsewhere],
                [basedir |-> None, cwd |-> Root] },
        r \in BOOLEAN, h \in BOOLEAN, g \in {[some |-> FALSE, v |-> ""], Some("mod")},
        p \in PathLists, k \in BOOLEAN }

InitFs ==
    /\ disk \in Disks
    /\ parms \in ParmsSet
    /\ fsys = Pending
    /\ fs_name = <<>>
    /\ fs_res = Pending
    /\ fs_len = 0
    /\ buf = <<>>
    /\ name_call = "idle"
    /\ name_res = Pending
    /\ img = NoImage
    /\ load_call = "idle"
    /\ load_res = Pending
    /\ RdIdle

\* FileSys::new(&parms)
New ==
    /\ fsys = Pending
    /\ fsys' = FileSys_new(parms, disk)
    /\ UNCHANGED <<disk, parms, fs_name, fs_res, fs_len, buf, name_call, name_res,
                   img, load_call, load_res, rdVars, wadVars, cmdVars>>

\* fs.load_file(name)
LoadFile ==
    /\ IsOk(fsys)
    /\ \E name \in Names :
          LET r == load_file(fsys.val, disk, name)
          IN  /\ fsys' = Ok(r.fs)
              /\ fs_name' = name
              /\ fs_res' = r.res
              /\ fs_len' = r.len
    /\ UNCHANGED <<disk, parms, buf, name_call, name_res, img, load_call, load_res,
                   rdVars, wadVars, cmdVars>>

NextFs == New \/ LoadFile

SpecFs == InitFs /\ [][NextFs]_vars

---------------------------------------------------------------------------
(* The name model: one buffer, one name parser called on it.               *)

NameAlphabet == {0, 97, 169, 195}

NameBufs ==
    SeqsUpTo(NameAlphabet, MaxBufLen)
    \cup { Pad(t, w, fill) :
             t \in SeqsUpTo(NameAlphabet, MaxBufLen), w \in {16, NAME_SIZE},
             fill \in {0, 120} }

InitName ==
    /\ buf \in NameBufs
    /\ name_call = "none"
    /\ name_res = Pending
    /\ img = NoImage
    /\ load_call = "idle"
    /\ load_res = Pending
    /\ FsIdle
    /\ RdIdle

\* util::cstr_buf_to_string on the buffer.
CallCstrBufToString ==
    /\ name_call = "none"
    /\ name_call' = "cstr_buf_to_string"
    /\ name_res' = cstr_buf_to_string(buf)
    /\ UNCHANGED <<buf, img, load_call, load_res, fsVars, rdVars, wadVars, cmdVars>>

\* FileInfo::from on a pack record whose 56-byte name field is the buffer.
CallFileInfoFrom ==
    /\ name_call = "none"
    /\ Len(buf) = NAME_SIZE
    /\ \E off \in {0, 12}, size \in {0, 3} :
          name_res' = FileInfo_from(buf \o write_i32(off) \o write_i32(size), 0)
    /\ name_call' = "FileInfo::from"
    /\ UNCHANGED <<buf, img, load_call, load_res, fsVars, rdVars, wadVars, cmdVars>>

\* LumpInfo::from on a lump record whose 16-byte name field is the buffer.
CallLumpInfoFrom ==
    /\ name_call = "none"
    /\ Len(buf) = 16
    /\ \E type \in {0, 66}, pad \in {0, 255} :
          name_res' = LumpInfo_from(write_i32(12) \o write_i32(2) \o write_i32(2)
                                      \o <<type, 0, pad, pad>> \o buf)
    /\ name_call' = "LumpInfo::from"
    /\ UNCHANGED <<buf, img, load_call, load_res, fsVars, rdVars, wadVars, cmdVars>>

NextName == CallCstrBufToString \/ CallFileInfoFrom \/ CallLumpInfoFrom

SpecName == InitName /\ [][NextName]_vars

---------------------------------------------------------------------------
(* The reader model: one Pack's handle, FsReaders made over it and over    *)
(* files of their own, and single read calls with buffers of any size on   *)
(* handles that may deliver fewer bytes than asked, or fail.               *)

MaxLive == 2
MaxBuf == 3

PackFileBytes == <<11, 12, 13, 14, 15, 16>>
LooseFiles == {<<>>, <<21, 22, 23>>}

\* The entries a pack's directory may hold for the file: ranges inside it,
\* up to its end, and past its end.
Infos ==
    { [name |-> NameA, offset |-> o, size |-> z] : o \in {2, 5}, z \in {0, 2, 4} }

\* What one call of the backing handle may do: fail, deliver one byte, or
\* deliver as many bytes as any buffer of the model holds.
HandleSteps == {-1, 1, MaxBuf}

\* for_pack_file takes the handle by &'a mut for the life of the reader: the
\* handle can be lent only while no reader made over it is alive.
handle_shared(rs) == TRUE
handle_free(rs) == \A i \in 1..Len(rs) : rs[i].r.inner # "Borrowed"

\* The sequence without its i-th element.
Remove(q, i) == [j \in 1..(Len(q) - 1) |-> IF j < i THEN q[j] ELSE q[j + 1]]

InitReader ==
    /\ hnd = [bytes |-> PackFileBytes, pos |-> Len(PackFileBytes)]
    /\ readers = <<>>
    /\ rd_last = Pending
    /\ wad_call = WadCall("idle", <<>>, -1)
    /\ wad_res = Pending
    /\ CmdIdle
    /\ buf = <<>>
    /\ name_call = "idle"
    /\ name_res = Pending
    /\ img = NoImage
    /\ load_call = "idle"
    /\ load_res = Pending
    /\ FsIdle

\* FsReader::for_pack_file(&mut handle, info): start is where the entry's
\* range begins, out the bytes the reader has yielded.
ForPackFile ==
    /\ Len(readers) < MaxLive
    /\ handle_free(readers)
    /\ \E info \in Infos :
          LET made == FsReader_for_pack_file(hnd, info)
          IN  /\ hnd' = [hnd EXCEPT !.pos = made.val.pos]
              /\ readers' = Append(readers, [r |-> made.val, start |-> info.offset,
                                             out |-> <<>>])
    /\ UNCHANGED <<rd_last, buf, name_call, name_res, img, load_call, load_res, fsVars,
                   wadVars, cmdVars>>

\* FsReader::for_file(file)
ForFile ==
    /\ Len(readers) < MaxLive
    /\ \E content \in LooseFiles :
          readers' = Append(readers, [r |-> FsReader_for_file(content).val,
                                      start |-> 0, out |-> <<>>])
    /\ UNCHANGED <<hnd, rd_last, buf, name_call, name_res, img, load_call, load_res,
                   fsVars, wadVars, cmdVars>>

\* reader.read(buf) on a live reader; a borrowed reader reads through the
\* pack's handle, at the handle's offset.
Read ==
    \E i \in 1..Len(readers), buf_len \in 0..MaxBuf, k \in HandleSteps :
        LET cur == readers[i]
            borrowed == cur.r.inner = "Borrowed"
            step == FsReader_read(IF borrowed THEN [cur.r EXCEPT !.pos = hnd.pos]
                                  ELSE cur.r, buf_len, k)
        IN  /\ readers' = [readers EXCEPT ![i] = [r |-> step.reader,
                                                  start |-> cur.start,
                                                  out |-> cur.out \o step.out]]
            /\ hnd' = IF borrowed THEN [hnd EXCEPT !.pos = step.reader.pos] ELSE hnd
            /\ rd_last' = [reader |-> i, buf_len |-> buf_len, len |-> cur.r.len,
                           before |-> cur.r.n_read, after |-> step.reader.n_read,
                           res |-> step.res, asked |-> step.asked]
            /\ UNCHANGED <<buf, name_call, name_res, img, load_call, load_res, fsVars,
                   wadVars, cmdVars>>

\* The reader goes out of scope.
DropReader ==
    /\ \E i \in 1..Len(readers) : readers' = Remove(readers, i)
    /\ rd_last' = Pending
    /\ UNCHANGED <<hnd, buf, name_call, name_res, img, load_call, load_res, fsVars,
                   wadVars, cmdVars>>

NextReader == ForPackFile \/ ForFile \/ Read \/ DropReader

SpecReader == InitReader /\ [][NextReader]_vars

---------------------------------------------------------------------------
(* The lookup model: one pak whose directory may hold a name more than     *)
(* once and in either letter case, Pack::load, then lookups by name.       *)

MaxLookupRecs == 3

NameUpperA == <<65>>
LookupNames == {NameA, NameUpperA, NameB}

\* The pak of the lookup model: the k-th record is the single byte 70 + k.
LookupPak(names) ==
    GoodPak([k \in 1..Len(names) |-> 70 + k],
            [k \in 1..Len(names) |-> PackRec(names[k], 0, HEADER_SIZE + k - 1, 1)])

LookupPath == Push(Push(Root, <<GAMENAME>>), PakFileName(0))

InitLookup ==
    /\ disk \in { [id1 |-> [loose |-> <<>>, paks |-> <<LookupPak(names)>>]] :
                    names \in SeqsUpTo(LookupNames, MaxLookupRecs) }
    /\ parms = <<>>
    /\ fsys = Pending
    /\ fs_name = <<>>
    /\ fs_res = Pending
    /\ fs_len = 0
    /\ load_call = "none"
    /\ load_res = Pending
    /\ img = NoImage
    /\ buf = <<>>
    /\ name_call = "idle"
    /\ name_res = Pending
    /\ RdIdle

\* Pack::load(path) on the pak of the disk.
LoadLookupPak ==
    /\ load_call = "none"
    /\ load_call' = "Pack::load"
    /\ load_res' = LoadPak(disk, LookupPath)
    /\ UNCHANGED <<disk, parms, fsys, fs_name, fs_res, fs_len, img, buf, name_call,
                   name_res, rdVars, wadVars, cmdVars>>

\* pak.file(name), the reader it returns read to its end and dropped; the
\* pack's handle stays where the reader left it.
PackFile ==
    /\ load_call = "Pack::load"
    /\ IsOk(load_res)
    /\ load_res.val.some
    /\ \E name \in LookupNames :
          Match(Pack_file(disk, load_res.val.v, name),
                LAMBDA found :
                    /\ fs_name' = name
                    /\ IF found.val.some
                       THEN Match(read_to_end(found.val.v, <<>>),
                                  LAMBDA done :
                                      /\ fs_res' = Ok(Some(done.buf))
                                      /\ fs_len' = FsReader_len(found.val.v)
                                      /\ load_res' = Ok(Some([load_res.val.v EXCEPT
                                                        !.reader = done.reader.pos])))
                       ELSE /\ fs_res' = Ok(None)
                            /\ fs_len' = 0
                            /\ load_res' = load_res)
    /\ UNCHANGED <<disk, parms, fsys, load_call, img, buf, name_call, name_res, rdVars,
                   wadVars, cmdVars>>

NextLookup == LoadLookupPak \/ PackFile

SpecLookup == InitLookup /\ [][NextLookup]_vars

---------------------------------------------------------------------------
(* The wad model: one wad file, Wad::load_from_file, then lookups of lump  *)
(* information and lump data by name and by number.                        *)

MaxLumps == 2

\* The bytes between header and table: file positions 12 .. 15.
WadData == <<81, 82, 83, 84>>

LumpA == <<97>>
LumpUpperA == <<65>>
LumpB == <<98>>
LumpC == <<99>>
QueryNames == {LumpA, LumpUpperA, LumpB, LumpC}

\* The type and compression codes a record may carry: every code the
\* parsers know, their neighbours, and the largest byte.
TypeCodes == {0, 1, 2, 63, 64, 65, 66, 67, 68, 69, 255}
CompressionCodes == {0, 1, 2, 255}

\* Lump records: plain ones of one name in both letter cases and of another
\* name, a compressed one, one that is uncompressed though its two sizes
\* differ, one whose range passes the end of the file, and one that begins
\* past it.
QueryLumps ==
    { LumpRec(LumpA, 0, 12, 2, 2, 66, 0),
      LumpRec(LumpUpperA, 0, 14, 2, 2, 66, 0),
      LumpRec(LumpB, 0, 13, 3, 3, 64, 0),
      LumpRec(LumpA, 0, 14, 2, 4, 66, 1),
      LumpRec(LumpA, 0, 12, 2, 4, 66, 0),
      LumpRec(LumpB, 0, 14, 200, 200, 66, 0),
      LumpRec(LumpB, 0, 300, 0, 0, 66, 0) }

CodedLump(type, compression) == LumpRec(LumpB, 0, 12, 2, 2, type, compression)

\* A wad whose header tells the truth about its table.
WadOf(recs) ==
    WadImage(WAD2_ID, Len(recs), HEADER_SIZE + Len(WadData), WadData, recs, 0, -1)

QueryImages ==
    { WadOf(recs) : recs \in SeqsUpTo(QueryLumps, MaxLumps) }
    \cup { WadOf(<<CodedLump(t, c)>>) : t \in TypeCodes, c \in CompressionCodes }
    \cup { WadOf(<<LumpRec(LumpA, 0, 12, 2, 2, 66, 0), CodedLump(t, c)>>) :
             t \in TypeCodes, c \in CompressionCodes }

InitWad ==
    /\ img \in QueryImages
    /\ load_call = "none"
    /\ load_res = Pending
    /\ wad_call = WadCall("none", <<>>, -1)
    /\ wad_res = Pending
    /\ CmdIdle
    /\ hnd = <<>>
    /\ readers = <<>>
    /\ rd_last = Pending
    /\ buf = <<>>
    /\ name_call = "idle"
    /\ name_res = Pending
    /\ FsIdle

\* A Wad was loaded and no call on it has panicked.
WadAlive ==
    /\ load_call = "Wad::load_from_file"
    /\ IsOk(load_res)
    /\ ~IsPanic(wad_res)

\* wad.lump_info(name)
LumpInfo ==
    /\ WadAlive
    /\ \E name \in QueryNames :
          /\ wad_call' = WadCall("lump_info", name, -1)
          /\ wad_res' = Wad_lump_info(load_res.val, name)
    /\ UNCHANGED <<img, load_call, load_res, buf, name_call, name_res, fsVars, rdVars,
                   cmdVars>>

\* wad.data_for_lump_named(name)
DataForLumpNamed ==
    /\ WadAlive
    /\ \E name \in QueryNames :
          /\ wad_call' = WadCall("data_for_lump_named", name, -1)
          /\ wad_res' = Wad_data_for_lump_named(load_res.val, name)
    /\ UNCHANGED <<img, load_call, load_res, buf, name_call, name_res, fsVars, rdVars,
                   cmdVars>>

\* wad.data_for_lump_num(n)
DataForLumpNum ==
    /\ WadAlive
    /\ \E n \in 0..(MaxLumps + 1) :
          /\ wad_call' = WadCall("data_for_lump_num", <<>>, n)
          /\ wad_res' = Wad_data_for_lump_num(load_res.val, n)
    /\ UNCHANGED <<img, load_call, load_res, buf, name_call, name_res, fsVars, rdVars,
                   cmdVars>>

NextWad == CallWadLoad \/ LumpInfo \/ DataForLumpNamed \/ DataForLumpNum

SpecWad == InitWad /\ [][NextWad]_vars

----------------------------------------------------------------------------
(* The command buffer and the two registries (src/cmd/mod.rs,              *)
(* src/cvar/mod.rs).  Text is a sequence of one-character strings.         *)

NL == "\n"
Quote == "\""

\* CommandCenter::add_text: push_str.
add_text(text_buf, text) == text_buf \o text

\* The buffer's end in place of its beginning.
insert_text_at_end(text_buf, text) == text_buf \o text

\* CommandCenter::insert_text: insert_str(0, text).
insert_text(text_buf, text) == text \o text_buf

\* The scan of execute_buffer for a line break, from the i-th character with
\* `quotes` quote marks seen: the number of characters pushed to the line.
RECURSIVE scan_line(_, _, _)
scan_line(text, i, quotes) ==
    IF i > Len(text) THEN i - 1
    ELSE IF text[i] = Quote THEN scan_line(text, i + 1, quotes + 1)
    ELSE IF text[i] = ";" /\ quotes % 2 = 0 THEN i - 1
    ELSE IF text[i] = NL THEN i - 1
    ELSE scan_line(text, i + 1, quotes)

\* The first block of execute_buffer's loop: the line, and the buffer with
\* the line and its terminating character removed.
remove_line(text) ==
    Match(scan_line(text, 1, 0), LAMBDA len :
        [line |-> SubSeq(text, 1, len),
         rest |-> IF len = Len(text) THEN <<>>
                  ELSE SubSeq(text, len + 2, Len(text))])

\* StrProcessor::skip_whitespace: anything up to the space character.
RECURSIVE skip_whitespace(_)
skip_whitespace(text) ==
    IF text # <<>> /\ Head(text) \in {" ", NL} THEN skip_whitespace(Tail(text))
    ELSE text

\* StrProcessor::consume_quoted on a text that begins with a quote mark: the
\* text between that mark and the next one, or the end of the text.
consume_quoted(text) ==
    LET inner == Tail(text)
        ends  == {p \in 1..Len(inner) : inner[p] = Quote}
    IN  IF ends = {} THEN inner
        ELSE SubSeq(inner, 1, (CHOOSE p \in ends : \A q \in ends : p <= q) - 1)

\* StrProcessor::consume_normal: the characters in front of the first
\* whitespace (the model's texts hold no special character).
RECURSIVE consume_normal(_)
consume_normal(text) ==
    IF text = <<>> \/ Head(text) \in {" ", NL} THEN <<>>
    ELSE <<Head(text)>> \o consume_normal(Tail(text))

\* Command::tokenise, as far as Command::name() reads it: None for a line
\* without a token, else the first token.
Command_tokenise(text) ==
    Match(skip_whitespace(text), LAMBDA t :
        IF t = <<>> THEN None
        ELSE IF Head(t) = Quote THEN Some(consume_quoted(t))
        ELSE Some(consume_normal(t)))

\* What a CommandHandler can do: return Ok (the tests' foo_handler), insert
\* text for the buffer (stuffcmds_handler), return an Err.
Handlers == {"ok", "insert", "err"}

\* The text stuffcmds_handler builds: a command and a newline.
StuffText == <<"d", NL>>

\* CommandCenter.aliases: new() makes it empty and no method adds to it.
aliases == <<>>

\* The CommandCenter's and the CvarManager's fields as one value.
CmdState(text, w, cmds, cvs) ==
    [cmd_text |-> text, wait |-> w, commands |-> cmds, cvars |-> cvs]

\* CvarManager::find, as an answer to "is there one".
CvarManager_find(cvs, var_name) == \E i \in 1..Len(cvs) : cvs[i] = var_name

\* CommandCenter::is_command_registered.
is_command_registered(cmds, cmd_name) == cmd_name \in DOMAIN cmds

\* The call of a handler: the state it leaves and its Result.
call_handler(handler, st) ==
    IF handler = "err" THEN [st |-> st, res |-> Err("handler")]
    ELSE IF handler = "insert"
    THEN [st |-> [st EXCEPT !.cmd_text = insert_text(st.cmd_text, StuffText)],
          res |-> Ok(<<>>)]
    ELSE [st |-> st, res |-> Ok(<<>>)]

\* CommandCenter::execute_text: a registered command's handler, else an
\* alias, else the cvars' console (which answers for a cvar's name), else
\* unimplemented!().
execute_text(st, text) ==
    Match(Command_tokenise(text), LAMBDA command :
        IF ~command.some THEN [st |-> st, res |-> Ok(<<>>)]
        ELSE IF is_command_registered(st.commands, command.v)
        THEN call_handler(st.commands[command.v], st)
        ELSE IF command.v \in DOMAIN aliases
        THEN [st |-> [st EXCEPT !.cmd_text =
                         insert_text(st.cmd_text, aliases[command.v])],
              res |-> Ok(<<>>)]
        ELSE IF ~CvarManager_find(st.cvars, command.v)
        THEN [st |-> st, res |-> Panic("not implemented")]
        ELSE [st |-> st, res |-> Ok(<<>>)])

\* execute_buffer without the test of the wait flag.
RECURSIVE execute_buffer_no_wait(_, _)
execute_buffer_no_wait(st, ran) ==
    IF st.cmd_text = <<>> THEN [st |-> st, res |-> Ok(<<>>), ran |-> ran]
    ELSE Match(remove_line(st.cmd_text), LAMBDA l :
         Match(execute_text([st EXCEPT !.cmd_text = l.rest], l.line), LAMBDA r :
            IF ~IsOk(r.res)
            THEN [st |-> r.st, res |-> r.res, ran |-> Append(ran, l.line)]
            ELSE execute_buffer_no_wait(r.st, Append(ran, l.line))))

\* CommandCenter::execute_buffer with `ran` the lines executed so far: the
\* state it leaves, its Result and the lines it executed, in order.
RECURSIVE execute_buffer(_, _)
execute_buffer(st, ran) ==
    IF st.cmd_text = <<>> THEN [st |-> st, res |-> Ok(<<>>), ran |-> ran]
    ELSE Match(remove_line(st.cmd_text), LAMBDA l :
         Match(execute_text([st EXCEPT !.cmd_text = l.rest], l.line), LAMBDA r :
            IF ~IsOk(r.res)
            THEN [st |-> r.st, res |-> r.res, ran |-> Append(ran, l.line)]
            ELSE IF r.st.wait
            THEN [st |-> [r.st EXCEPT !.wait = FALSE], res |-> Ok(<<>>),
                  ran |-> Append(ran, l.line)]
            ELSE execute_buffer(r.st, Append(ran, l.line))))

\* CommandCenter::register_command: the commands it leaves and its outcome.
register_command(st, cmd_name, handler) ==
    IF CvarManager_find(st.cvars, cmd_name)
    THEN [st |-> st, res |-> Panic("clashes with a cvar")]
    ELSE IF cmd_name \in DOMAIN st.commands
    THEN [st |-> st, res |-> Panic("already exists")]
    ELSE [st |-> [st EXCEPT !.commands =
                     [n \in DOMAIN st.commands \cup {cmd_name} |->
                         IF n = cmd_name THEN handler ELSE st.commands[n]]],
          res |-> Ok(<<>>)]

\* register without the look at the commands.
CvarManager_register_unchecked(st, name) ==
    IF CvarManager_find(st.cvars, name)
    THEN [st |-> st, res |-> Panic("already defined")]
    ELSE [st |-> [st EXCEPT !.cvars = Append(st.cvars, name)], res |-> Ok(<<>>)]

\* CvarManager::register: the vars it leaves and its outcome.
CvarManager_register(st, name) ==
    IF CvarManager_find(st.cvars, name)
    THEN [st |-> st, res |-> Panic("already defined")]
    ELSE IF is_command_registered(st.commands, name)
    THEN [st |-> st, res |-> Panic("clashes with a command")]
    ELSE [st |-> [st EXCEPT !.cvars = Append(st.cvars, name)], res |-> Ok(<<>>)]

----------------------------------------------------------------------------
(* The command model: texts for the buffer, registrations and runs of the   *)
(* buffer, in any order.                                                    *)

\* The longest buffer add_text and insert_text build.
MaxText == 6

\* The texts added and inserted: terminated by `;` and by a newline, with a
\* `;` between quote marks and no terminator, with one quote mark.
Texts ==
    { <<"a", ";">>, <<"b", NL>>, <<"b", " ", Quote, ";", Quote>>,
      <<Quote, ";">> }

CmdNames == {<<"a">>, <<"b">>}
CvarNames == {<<"a">>, <<"d">>}

TheState == CmdState(cmd_text, wait, commands, cvars)

InitCmd ==
    /\ cmd_text = <<>>
    /\ wait = FALSE
    /\ commands = <<>>
    /\ cvars = <<>>
    /\ cmd_call = CmdCall("none", <<>>)
    /\ cmd_res = Pending
    /\ cmd_ran = <<>>
    /\ hnd = <<>>
    /\ readers = <<>>
    /\ rd_last = Pending
    /\ wad_call = WadCall("idle", <<>>, -1)
    /\ wad_res = Pending
    /\ img = NoImage
    /\ load_call = "idle"
    /\ load_res = Pending
    /\ buf = <<>>
    /\ name_call = "idle"
    /\ name_res = Pending
    /\ FsIdle

CmdOthers == <<buf, name_call, name_res, img, load_call, load_res,
               fsVars, rdVars, wadVars>>

AddText ==
    \E text \in Texts :
        /\ Len(cmd_text) + Len(text) <= MaxText
        /\ cmd_text' = add_text(cmd_text, text)
        /\ cmd_call' = CmdCall("add_text", text)
        /\ cmd_res' = Ok(<<>>)
        /\ cmd_ran' = <<>>
        /\ UNCHANGED <<wait, commands, cvars, CmdOthers>>

InsertText ==
    \E text \in Texts :
        /\ Len(cmd_text) + Len(text) <= MaxText
        /\ cmd_text' = insert_text(cmd_text, text)
        /\ cmd_call' = CmdCall("insert_text", text)
        /\ cmd_res' = Ok(<<>>)
        /\ cmd_ran' = <<>>
        /\ UNCHANGED <<wait, commands, cvars, CmdOthers>>

\* The tests' `cmd.wait = true` in front of a run of the buffer.
SetWait ==
    /\ ~wait
    /\ wait' = TRUE
    /\ cmd_call' = CmdCall("set_wait", <<>>)
    /\ cmd_res' = Ok(<<>>)
    /\ cmd_ran' = <<>>
    /\ UNCHANGED <<cmd_text, commands, cvars, CmdOthers>>

ExecuteBuffer ==
    /\ cmd_call' = CmdCall("execute_buffer", <<>>)
    /\ LET r == execute_buffer(TheState, <<>>)
       IN  /\ cmd_text' = r.st.cmd_text
           /\ wait' = r.st.wait
           /\ cmd_res' = r.res
           /\ cmd_ran' = r.ran
    /\ UNCHANGED <<commands, cvars, CmdOthers>>

RegisterCommand ==
    \E cmd_name \in CmdNames, handler \in Handlers :
        /\ cmd_call' = CmdCall("register_command", cmd_name)
        /\ LET r == register_command(TheState, cmd_name, handler)
           IN  /\ commands' = r.st.commands
               /\ cvars' = r.st.cvars
               /\ cmd_res' = r.res
        /\ cmd_ran' = <<>>
        /\ UNCHANGED <<cmd_text, wait, CmdOthers>>

RegisterCvar ==
    \E name \in CvarNames :
        /\ cmd_call' = CmdCall("register", name)
        /\ LET r == CvarManager_register(TheState, name)
           IN  /\ commands' = r.st.commands
               /\ cvars' = r.st.cvars
               /\ cmd_res' = r.res
        /\ cmd_ran' = <<>>
        /\ UNCHANGED <<cmd_text, wait, CmdOthers>>

NextCmd ==
    AddText \/ InsertText \/ SetWait \/ ExecuteBuffer \/ RegisterCommand
    \/ RegisterCvar

SpecCmd == InitCmd /\ [][NextCmd]_vars

---------------------------------------------------------------------------
(* Properties of the parsers.                                              *)

HasNul(b) == \E i \in 1..Len(b) : b[i] = NUL

\* The bytes of b in front of its first NUL.
BeforeNul(b) ==
    LET i == CHOOSE k \in 1..Len(b) : b[k] = NUL /\ \A j \in 1..(k-1) : b[j] # NUL
    IN  [k \in 1..(i - 1) |-> b[k]]

IsText(b) == Utf8ValidFrom(b, 1)

\* The name a parser call produced.
ParsedName == IF name_call = "cstr_buf_to_string" THEN name_res.val ELSE name_res.val.name

\* The loader ran on a file whose 12 header bytes can be read.
Loaded(call, kind) ==
    /\ load_call = call
    /\ img.kind = kind
    /\ FileLen(img) >= HEADER_SIZE

\* Record k of the image's table lies whole in the file, and the header
\* points at the table.
PackRecInFile(k) ==
    /\ img.dir_offset = TableOffset(img)
    /\ k <= NumRecs(img)
    /\ TableOffset(img) + k * FILE_INFO_SIZE_ON_DISK <= FileLen(img)

LumpRecInFile(k) ==
    /\ img.lump_table_offset = TableOffset(img)
    /\ k <= NumRecs(img)
    /\ TableOffset(img) + k * LUMP_INFO_SIZE <= FileLen(img)

\* A name field the parsers accept: a NUL in it, text in front of the NUL.
GoodNameField(field) == HasNul(field) /\ IsText(BeforeNul(field))

GoodPackRec(r) ==
    /\ GoodNameField(Pad(r.text, NAME_SIZE, r.fill))
    /\ r.offset >= 0
    /\ r.size >= 0

\* C7: Pack::load returns Ok(None) when no file exists at the path, and an
\* Err (neither Ok(None) nor Ok(Some)) when a file exists whose first 4 bytes
\* are not "PACK".
PackLoadAbsentOrCorrupt ==
    load_call = "Pack::load" =>
        /\ img.kind = "none" => (IsOk(load_res) /\ ~load_res.val.some)
        /\ (img.kind # "none" /\ ~(FileLen(img) >= 4 /\ img.id = PACK_ID))
              => IsErr(load_res)

\* C7 witness: a whole, well-formed file except for its id was refused for
\* its id.
PackLoadBadMagicSeen ==
    /\ Loaded("Pack::load", "pack")
    /\ img.id = WAD2_ID
    /\ img.dir_offset = TableOffset(img)
    /\ NumRecs(img) = 1
    /\ img.dir_len = FILE_INFO_SIZE_ON_DISK
    /\ img.cut < 0
    /\ load_res = Err("Not a packfile header")

\* C8: a negative value in any signed 32-bit field that the loaders widen
\* (pack: dir_offset, dir_len, entry offset, entry size; wad: num_lumps,
\* lump_table_offset, file_pos, disk_size, size) makes the load fail with an
\* error, and a load that succeeds holds every field's value unchanged.
NegativeFieldsRejected ==
    /\ (Loaded("Pack::load", "pack") /\ img.id = PACK_ID) =>
          /\ (img.dir_offset < 0 \/ img.dir_len < 0)
                => load_res = Err("TryFromIntError")
          /\ (/\ img.dir_offset >= 0
              /\ img.dir_len >= 0
              /\ img.dir_len \div FILE_INFO_SIZE_ON_DISK <= MAX_FILES_IN_PACK
              /\ \E k \in 1..(img.dir_len \div FILE_INFO_SIZE_ON_DISK) :
                    /\ PackRecInFile(k)
                    /\ (RecAt(img, k).offset < 0 \/ RecAt(img, k).size < 0))
                => IsErr(load_res)
          /\ (IsOk(load_res) /\ img.dir_offset = TableOffset(img)) =>
                LET infos == load_res.val.v.file_infos
                IN  /\ load_res.val.v.reader = img.dir_offset + Len(infos) * FILE_INFO_SIZE_ON_DISK
                    /\ Len(infos) * FILE_INFO_SIZE_ON_DISK <= img.dir_len
                    /\ img.dir_len < (Len(infos) + 1) * FILE_INFO_SIZE_ON_DISK
                    /\ \A k \in 1..Len(infos) :
                          /\ infos[k].offset = RecAt(img, k).offset
                          /\ infos[k].size = RecAt(img, k).size
                          /\ infos[k].offset >= 0
                          /\ infos[k].size >= 0
    /\ (Loaded("Wad::load_from_file", "wad") /\ img.id = WAD2_ID) =>
          /\ (img.num_lumps < 0 \/ img.lump_table_offset < 0)
                => load_res = Err("TryFromIntError")
          /\ (/\ img.num_lumps >= 0
              /\ img.lump_table_offset >= 0
              /\ \E k \in 1..Min(img.num_lumps, NumRecs(img)) :
                    /\ LumpRecInFile(k)
                    /\ \/ RecAt(img, k).file_pos < 0
                       \/ RecAt(img, k).disk_size < 0
                       \/ RecAt(img, k).size < 0)
                => IsErr(load_res)
          /\ IsOk(load_res) =>
                /\ load_res.val.info.num_lumps = img.num_lumps
                /\ load_res.val.info.lump_table_offset = img.lump_table_offset
                /\ img.lump_table_offset = TableOffset(img) =>
                      \A k \in 1..Len(load_res.val.lumps) :
                          LET l == load_res.val.lumps[k]
                          IN  /\ l.file_pos = RecAt(img, k).file_pos /\ l.file_pos >= 0
                              /\ l.disk_size = RecAt(img, k).disk_size /\ l.disk_size >= 0
                              /\ l.size = RecAt(img, k).size /\ l.size >= 0

\* C8 witness: a wad whose header and first record are fine and whose second
\* record has a negative disk size was refused.
NegativeLumpFieldSeen ==
    /\ Loaded("Wad::load_from_file", "wad")
    /\ img.id = WAD2_ID
    /\ img.num_lumps = 2
    /\ LumpRecInFile(2)
    /\ NumRecs(img) = 2
    /\ RecAt(img, 1) = PlainLumpRec
    /\ RecAt(img, 2) = LumpRec(<<100>>, 0, 12, -1, 2, 66, 0)
    /\ load_res = Err("TryFromIntError")

\* C9: Pack::load takes dir_len / 64, rounded down, as the number of entries:
\* more than 2048 is refused as too many, and a directory of up to 2048 good
\* records that is in the file loads, whatever the remainder of the
\* division, with exactly that many entries.
PackEntryCount ==
    (/\ Loaded("Pack::load", "pack")
     /\ img.id = PACK_ID
     /\ img.dir_offset >= 0
     /\ img.dir_len >= 0) =>
        LET count == img.dir_len \div FILE_INFO_SIZE_ON_DISK
        IN  /\ count > MAX_FILES_IN_PACK => load_res = Err("too many files in pack")
            /\ count <= MAX_FILES_IN_PACK => load_res # Err("too many files in pack")
            /\ IsOk(load_res) =>
                  /\ load_res.val.some
                  /\ Len(load_res.val.v.file_infos) = count
            /\ (/\ count <= MAX_FILES_IN_PACK
                /\ \A k \in 1..count : PackRecInFile(k) /\ GoodPackRec(RecAt(img, k)))
                  => IsOk(load_res)

\* C9 witness: a directory length of 2048 * 64 + 63 loaded with 2048 entries.
PackFullDirectorySeen ==
    /\ Loaded("Pack::load", "pack")
    /\ img.dir_len = MAX_FILES_IN_PACK * FILE_INFO_SIZE_ON_DISK + 63
    /\ IsOk(load_res)
    /\ Len(load_res.val.v.file_infos) = MAX_FILES_IN_PACK

\* C10: when a name field (16 or 56 bytes, or any buffer) holds a NUL, the
\* parsed name is exactly the bytes in front of the first NUL; what follows
\* that NUL changes neither the name nor whether the parse succeeds (it fails
\* only when the bytes in front of the NUL are no text).
NameIsBytesBeforeFirstNul ==
    (name_call \in {"cstr_buf_to_string", "FileInfo::from", "LumpInfo::from"}
     /\ HasNul(buf)) =>
        IF IsText(BeforeNul(buf))
        THEN IsOk(name_res) /\ ParsedName = BeforeNul(buf)
        ELSE name_res = Err("Utf8Error")

\* C10 witness: a 16-byte lump name field "a", NUL, junk, NUL, ... gave "a".
NameWithJunkSeen ==
    /\ name_call = "LumpInfo::from"
    /\ Len(buf) = 16
    /\ buf[1] = 97 /\ buf[2] = NUL /\ buf[3] = 97 /\ buf[4] = NUL
    /\ IsOk(name_res)
    /\ name_res.val.name = <<97>>

\* C11, as claimed: a 56-byte name field without a NUL that is valid text is
\* taken whole as the entry name, and only one that is no text is refused.
FullFieldIsName ==
    (name_call = "FileInfo::from" /\ ~HasNul(buf)) =>
        IF IsText(buf) THEN IsOk(name_res) /\ ParsedName = buf
        ELSE IsErr(name_res)

\* C11: FileInfo::from refuses every 56-byte name field without a NUL, valid
\* text or not: CStr::from_bytes_with_nul finds no terminator.
FullFieldIsRefused ==
    (name_call = "FileInfo::from" /\ ~HasNul(buf)) =>
        name_res = Err("NotNulTerminated")

\* C11 witness: a field of 56 text bytes without a NUL was refused.
FullTextFieldSeen ==
    /\ name_call = "FileInfo::from"
    /\ Len(buf) = NAME_SIZE
    /\ ~HasNul(buf)
    /\ IsText(buf)
    /\ IsErr(name_res)

\* C12: cstr_buf_to_string returns an Err for every buffer without a NUL, the
\* empty buffer included, and never the buffer's text.
NoTerminatorIsError ==
    (name_call = "cstr_buf_to_string" /\ ~HasNul(buf)) =>
        /\ IsErr(name_res)
        /\ name_res # Ok(buf)

\* C12 witness: a buffer of text without a NUL, not empty, was refused.
TextWithoutNulSeen ==
    /\ name_call = "cstr_buf_to_string"
    /\ Len(buf) > 0
    /\ ~HasNul(buf)
    /\ IsText(buf)
    /\ IsErr(name_res)

---------------------------------------------------------------------------
(* Properties of the search path, stated on the disk and the command line. *)

Stack == fsys.val.search_paths
Loaded_fs == IsOk(fsys) /\ fs_res # Pending

Key(kind, path) == <<kind, path>>
Keys(sp) == [i \in 1..Len(sp) |-> Key(sp[i].kind, sp[i].path)]

BaseDir == IF parms.basedir.some THEN parms.basedir.v ELSE parms.cwd

\* The game directories the command line asks for, in the order asked.
GameDirs ==
    <<GAMENAME>> \o (IF parms.is_rogue THEN <<"rogue">> ELSE <<>>)
        \o (IF parms.is_hipnotic THEN <<"hipnotic">> ELSE <<>>)
        \o (IF parms.game.some THEN <<parms.game.v>> ELSE <<>>)

PaksOf(d) == IF d \in DOMAIN disk THEN disk[d].paks ELSE <<>>

\* k such that pak0 .. pak(k-1) exist in the directory and pak k does not.
FirstMissing(d) ==
    CHOOSE k \in 0..Len(PaksOf(d)) :
        /\ \A i \in 1..k : PaksOf(d)[i] # NoImage
        /\ k < Len(PaksOf(d)) => PaksOf(d)[k + 1] = NoImage

\* A pak that was written well: the header tells the truth about the table
\* and every record is good.
WellFormedPak(im) ==
    /\ im.kind = "pack"
    /\ im.id = PACK_ID
    /\ im.cut < 0
    /\ im.dir_offset = TableOffset(im)
    /\ im.dir_len = NumRecs(im) * FILE_INFO_SIZE_ON_DISK
    /\ \A k \in 1..Len(im.recs) : GoodPackRec(im.recs[k])

ExpectedSegment(d) ==
    <<Key("Directory", Push(BaseDir, <<d>>))>>
        \o [i \in 1..FirstMissing(d) |->
              Key("Pack", Push(Push(BaseDir, <<d>>), PakFileName(i - 1)))]

ExpectedAuto == Concat([j \in 1..Len(GameDirs) |-> ExpectedSegment(GameDirs[j])])

NumPath == IF parms.path.some THEN Len(parms.path.v) ELSE 0

\* The stack entries of game directory j: SegStart(j) is its Directory entry,
\* the paks follow up to SegEnd(j).
RECURSIVE SegEnd(_)
SegEnd(j) == IF j = 0 THEN 0 ELSE SegEnd(j - 1) + FirstMissing(GameDirs[j]) + 1
SegStart(j) == SegEnd(j - 1) + 1

\* The bytes of the backing file from the range's start to the range's end
\* or the file's end, whichever comes first.
RangeBytes(bytes, start, size) ==
    SubSeq(bytes, start + 1, Min(start + size, Len(bytes)))

\* What is stored under a name in a pak, a directory, a stack entry: in a pak
\* the bytes of the first record's range, as far as the pak file holds them.
PakHas(im, n) == \E k \in 1..Len(im.recs) : im.recs[k].text = n
PakCopy(im, n) ==
    LET k == CHOOSE i \in 1..Len(im.recs) :
                /\ im.recs[i].text = n
                /\ \A j \in 1..(i - 1) : im.recs[j].text # n
        r == im.recs[k]
    IN  IF r.offset - HEADER_SIZE + r.size <= Len(im.data)
        THEN SubSeq(im.data, r.offset - HEADER_SIZE + 1, r.offset - HEADER_SIZE + r.size)
        ELSE RangeBytes(write_image(im), r.offset, r.size)

LooseHas(d, n) == d \in DOMAIN disk /\ n \in DOMAIN disk[d].loose
PakHolders(d, n) == {i \in 1..FirstMissing(d) : PakHas(PaksOf(d)[i], n)}
MaxOf(S) == CHOOSE x \in S : \A y \in S : y <= x
DirHas(d, n) == LooseHas(d, n) \/ PakHolders(d, n) # {}
DirCopy(d, n) ==
    IF PakHolders(d, n) # {} THEN PakCopy(PaksOf(d)[MaxOf(PakHolders(d, n))], n)
    ELSE disk[d].loose[n]

EntryHas(e, n) ==
    IF e.kind = "Pack" THEN PakHas(OpenPak(disk, e.path), n)
    ELSE IsDiskDir(disk, e.path) /\ n \in DOMAIN DiskDir(disk, e.path).loose
EntryCopy(e, n) ==
    IF e.kind = "Pack" THEN PakCopy(OpenPak(disk, e.path), n)
    ELSE DiskDir(disk, e.path).loose[n]

\* The copy in the last-pushed entry of sp that holds the name, NotFound when
\* none does.
Resolved(sp, n) ==
    LET holders == {i \in 1..Len(sp) : EntryHas(sp[i], n)}
    IN  IF holders = {} THEN Ok(None)
        ELSE Ok(Some(EntryCopy(sp[MaxOf(holders)], n)))

\* C1, as claimed: load_file(name) returns the copy in the last-pushed entry
\* of the whole stack that holds the name, Ok(None) when no entry holds it,
\* and never an Err.
ResolvesFromLastPushed ==
    Loaded_fs => fs_res = Resolved(Stack, fs_name)

\* C1: without -proghack, load_file(name) returns the copy in the last-pushed
\* entry of the stack that holds the name and Ok(None) when no entry holds it;
\* with or without the flag the result is never an Err.
ResolvesFromLastPushedWithoutFlag ==
    Loaded_fs =>
        /\ ~IsErr(fs_res)
        /\ ~fsys.val.use_proghack => fs_res = Resolved(Stack, fs_name)

\* A lower entry holds another copy of the name than the one returned.
ShadowedCopySeen ==
    /\ Loaded_fs
    /\ ~fsys.val.use_proghack
    /\ fs_res.val.some
    /\ \E i \in 1..Len(Stack) :
          EntryHas(Stack[i], fs_name) /\ EntryCopy(Stack[i], fs_name) # fs_res.val.v

\* The entries a -path list names, in the order given.
PathKeys ==
    [i \in 1..NumPath |->
        Key(IF ends_with_pak(parms.path.v[i]) THEN "Pack" ELSE "Directory",
            parms.path.v[i])]

\* C2, as claimed: with a -path list the stack is exactly the entries the
\* list names, in the given order.
PathOverrideReplacesStack ==
    (IsOk(fsys) /\ parms.path.some) => Keys(Stack) = PathKeys

\* C3: every game directory contributes its Directory entry followed by the
\* packs pak0 .. pak(k-1), pak k being the first that does not exist, and
\* nothing else, whatever paks exist beyond k; and the scan of well-formed
\* paks does not fail.
ScanStopsAtFirstMissing ==
    /\ IsOk(fsys) =>
          /\ Len(Stack) = Len(ExpectedAuto) + NumPath
          /\ SubSeq(Keys(Stack), 1, Len(ExpectedAuto)) = ExpectedAuto
    /\ ( /\ fsys # Pending
         /\ ~parms.path.some
         /\ \A j \in 1..Len(GameDirs) : \A i \in 1..FirstMissing(GameDirs[j]) :
               WellFormedPak(PaksOf(GameDirs[j])[i]) )
       => IsOk(fsys)

\* pak0 exists, pak1 does not, pak2 does: the stack is the directory and pak0.
PakBeyondGapSeen ==
    /\ IsOk(fsys)
    /\ GameDirs = <<GAMENAME>>
    /\ ~parms.path.some
    /\ Len(PaksOf(GAMENAME)) = 3
    /\ FirstMissing(GAMENAME) = 1
    /\ PaksOf(GAMENAME)[3] # NoImage
    /\ Len(Stack) = 2

\* The name is a loose file of game directory j and in one of its paks.
LooseAndPak(j, n) ==
    LooseHas(GameDirs[j], n) /\ PakHolders(GameDirs[j], n) # {}

HighestPakCopy(j, n) ==
    PakCopy(PaksOf(GameDirs[j])[MaxOf(PakHolders(GameDirs[j], n))], n)

\* C4, as claimed: a name that is a loose file of a game directory and in its
\* discovered paks resolves to the copy in the highest-numbered such pak.
PakBeatsLooseFile ==
    Loaded_fs =>
        \A j \in 1..Len(GameDirs) :
            LooseAndPak(j, fs_name) => fs_res = Ok(Some(HighestPakCopy(j, fs_name)))

\* C4: without -proghack, a name that is a loose file of a game directory and
\* in its discovered paks resolves to the copy in the highest-numbered such
\* pak, unless an entry pushed after that directory's paks holds the name.
PakBeatsLooseFileUnlessShadowed ==
    (Loaded_fs /\ ~fsys.val.use_proghack) =>
        \A j \in 1..Len(GameDirs) :
            ( /\ LooseAndPak(j, fs_name)
              /\ \A i \in (SegEnd(j) + 1)..Len(Stack) : ~EntryHas(Stack[i], fs_name) )
            => fs_res = Ok(Some(HighestPakCopy(j, fs_name)))

\* The name is loose in id1 and in two of its paks; the higher pak's copy,
\* different from the two others, is returned.
HigherPakWinsSeen ==
    /\ Loaded_fs
    /\ ~fsys.val.use_proghack
    /\ LooseAndPak(1, fs_name)
    /\ Cardinality(PakHolders(GAMENAME, fs_name)) >= 2
    /\ fs_res = Ok(Some(HighestPakCopy(1, fs_name)))
    /\ \A i \in PakHolders(GAMENAME, fs_name) :
          i # MaxOf(PakHolders(GAMENAME, fs_name))
            => PakCopy(PaksOf(GAMENAME)[i], fs_name) # fs_res.val.v
    /\ disk[GAMENAME].loose[fs_name] # fs_res.val.v

\* The FileSys without the flag and without its last-pushed entry.
WithoutTop(fs0) ==
    [fs0 EXCEPT !.use_proghack = FALSE,
                !.search_paths = SubSeq(@, 1, Len(@) - 1)]

\* C5: with -proghack, load_file(name) on a stack returns what it returns
\* without the flag on the stack less its last-pushed entry; on a stack of no
\* entry or one entry it returns Ok(None).
ProghackSkipsLastPushed ==
    (Loaded_fs /\ fsys.val.use_proghack) =>
        /\ fs_res = load_file(WithoutTop(fsys.val), disk, fs_name).res
        /\ \A n \in 0..1 :
              load_file([fsys.val EXCEPT !.search_paths = SubSeq(@, 1, n)],
                        disk, fs_name).res = Ok(None)

\* The flag is set, the last-pushed entry holds the name and so does a lower
\* one, with another copy.
ProghackSkipSeen ==
    /\ Loaded_fs
    /\ fsys.val.use_proghack
    /\ EntryHas(Stack[Len(Stack)], fs_name)
    /\ fs_res.val.some
    /\ fs_res.val.v # EntryCopy(Stack[Len(Stack)], fs_name)

\* The game directory asked for last among those that hold the name.
LastHolder(n) == MaxOf({j \in 1..Len(GameDirs) : DirHas(GameDirs[j], n)})

\* C6, as claimed: the game directories are pushed in the order id1, rogue,
\* hipnotic, -game, and a name held by several of them resolves to the copy
\* of the one pushed last.
LaterGameDirShadows ==
    /\ IsOk(fsys) =>
          \A j \in 1..Len(GameDirs) :
              Keys(Stack)[SegStart(j)] = Key("Directory", Push(BaseDir, <<GameDirs[j]>>))
    /\ Loaded_fs =>
          ( (\E j \in 1..Len(GameDirs) : DirHas(GameDirs[j], fs_name))
            => fs_res = Ok(Some(DirCopy(GameDirs[LastHolder(fs_name)], fs_name))) )

\* C6: the game directories are pushed in the order id1, rogue, hipnotic,
\* -game; without -proghack, a name held by several of them and by no -path
\* entry resolves to the copy of the one pushed last.
LaterGameDirShadowsUnlessOverridden ==
    /\ IsOk(fsys) =>
          \A j \in 1..Len(GameDirs) :
              Keys(Stack)[SegStart(j)] = Key("Directory", Push(BaseDir, <<GameDirs[j]>>))
    /\ (Loaded_fs /\ ~fsys.val.use_proghack) =>
          ( ( /\ \E j \in 1..Len(GameDirs) : DirHas(GameDirs[j], fs_name)
              /\ \A i \in (Len(ExpectedAuto) + 1)..Len(Stack) :
                    ~EntryHas(Stack[i], fs_name) )
            => fs_res = Ok(Some(DirCopy(GameDirs[LastHolder(fs_name)], fs_name))) )

\* All four game directories are on the stack, id1 and the -game directory
\* hold the name, and the -game directory's copy is returned.
GameDirShadowSeen ==
    /\ Loaded_fs
    /\ ~fsys.val.use_proghack
    /\ Len(GameDirs) = 4
    /\ DirHas(GameDirs[1], fs_name)
    /\ DirHas(GameDirs[4], fs_name)
    /\ fs_res = Ok(Some(DirCopy(GameDirs[4], fs_name)))
    /\ fs_res # Ok(Some(DirCopy(GameDirs[1], fs_name)))

---------------------------------------------------------------------------
(* Properties of the construction's errors.                                *)

PathItems == IF parms.path.some THEN parms.path.v ELSE <<>>

\* The -path value names a pak / a directory that is not on the disk.
MissingPathPak(i) ==
    ends_with_pak(PathItems[i]) /\ OpenPak(disk, PathItems[i]) = NoImage
MissingPathDir(i) ==
    ~ends_with_pak(PathItems[i]) /\ ~IsDiskDir(disk, PathItems[i])

\* Every pak the scans find is well formed; -path value i is a directory or a
\* well-formed pak that exists.
AutoPaksGood ==
    \A j \in 1..Len(GameDirs) : \A i \in 1..FirstMissing(GameDirs[j]) :
        WellFormedPak(PaksOf(GameDirs[j])[i])
PathPakGood(i) ==
    ends_with_pak(PathItems[i]) => WellFormedPak(OpenPak(disk, PathItems[i]))

\* C13: a -path value naming a pak that does not exist makes FileSys::new
\* fail, with "Couldn't load packfile" when nothing failed before it, while the
\* first missing numbered pak of a game directory only ends that scan: with
\* well-formed paks and no missing -path pak, new() succeeds.
MissingPathPakIsError ==
    fsys # Pending =>
        /\ (\E i \in 1..NumPath : MissingPathPak(i)) => IsErr(fsys)
        /\ ( /\ AutoPaksGood
             /\ \E i \in 1..NumPath :
                   MissingPathPak(i) /\ \A k \in 1..(i - 1) : PathPakGood(k) )
           => fsys = Err("Couldn't load packfile")
        /\ (AutoPaksGood /\ \A i \in 1..NumPath : PathPakGood(i)) => IsOk(fsys)

\* C13 witness: id1's scan ended at a missing pak after finding one, and the
\* missing -path pak was refused.
MissingPathPakSeen ==
    /\ fsys = Err("Couldn't load packfile")
    /\ FirstMissing(GAMENAME) >= 1
    /\ \E i \in 1..NumPath : MissingPathPak(i)

\* C14, as claimed: a -path value naming a directory that does not exist makes
\* FileSys::new fail.
MissingPathDirIsError ==
    (fsys # Pending /\ \E i \in 1..NumPath : MissingPathDir(i)) => IsErr(fsys)

\* C14: a -path value naming a directory that does not exist is pushed as a
\* Directory entry like any other, and FileSys::new succeeds when every pak
\* loads.
MissingPathDirIsPushed ==
    ( /\ fsys # Pending
      /\ AutoPaksGood
      /\ \A i \in 1..NumPath : PathPakGood(i) )
    => /\ IsOk(fsys)
       /\ \A i \in 1..NumPath :
             MissingPathDir(i) =>
                 Keys(Stack)[Len(ExpectedAuto) + i] = Key("Directory", PathItems[i])

\* C14 witness: new() succeeded with a -path directory that is not on the disk.
MissingPathDirSeen ==
    /\ IsOk(fsys)
    /\ \E i \in 1..NumPath :
          /\ MissingPathDir(i)
          /\ Keys(Stack)[Len(ExpectedAuto) + i] = Key("Directory", PathItems[i])

\* The paks FileSys::new loads, in the order it loads them.
AutoPakPaths ==
    Concat([j \in 1..Len(GameDirs) |->
              [i \in 1..FirstMissing(GameDirs[j]) |->
                  Push(Push(BaseDir, <<GameDirs[j]>>), PakFileName(i - 1))]])
LoadOrder == AutoPakPaths \o SelectSeq(PathItems, ends_with_pak)

\* The loads that do not yield a pack, and the first of them.
Failing ==
    {k \in 1..Len(LoadOrder) : ~WellFormedPak(OpenPak(disk, LoadOrder[k]))}
FirstFailing == CHOOSE k \in Failing : \A j \in Failing : k <= j

\* C15: a pak that exists and does not parse makes FileSys::new fail; the
\* error returned is that of the first load that fails, whatever comes after
\* it, and with an Err there is no FileSys to call load_file on.
FirstBadPakAbortsNew ==
    fsys # Pending =>
        /\ (\E k \in Failing : OpenPak(disk, LoadOrder[k]) # NoImage) => IsErr(fsys)
        /\ (Failing # {} /\ OpenPak(disk, LoadOrder[FirstFailing]) # NoImage)
           => fsys = LoadPak(disk, LoadOrder[FirstFailing])
        /\ IsErr(fsys) => (fs_res = Pending /\ fs_name = <<>>)

\* C15 witness: id1's pak0 has a bad header and a -path pak is cut short; the
\* bad header is the error returned.
FirstOfTwoBadPaksSeen ==
    /\ fsys = Err("Not a packfile header")
    /\ Cardinality(Failing) >= 2
    /\ \E k \in Failing : LoadPak(disk, LoadOrder[k]) = Err("UnexpectedEof")

---------------------------------------------------------------------------
(* Properties of the readers.                                              *)

\* The i-th live reader's last call.
LastCallOf(i) == rd_last # Pending /\ rd_last.reader = i

\* C16: in every reachable state every FsReader has 0 <= n_read <= len, and
\* the bytes it has yielded over all its read calls are never more than len,
\* whatever the sizes of the caller's buffers and however many bytes the
\* backing file holds beyond the reader's range.
ReaderStaysInRange ==
    \A i \in 1..Len(readers) :
        /\ 0 <= readers[i].r.n_read
        /\ readers[i].r.n_read <= readers[i].r.len
        /\ Len(readers[i].out) <= readers[i].r.len

\* C16's case: a reader of 2 bytes in the middle of the pack file has yielded
\* both, the last of them to a buffer larger than what remained.
OversizedBufferClippedSeen ==
    \E i \in 1..Len(readers) :
        /\ readers[i].r.inner = "Borrowed"
        /\ readers[i].r.len = 2
        /\ readers[i].start + readers[i].r.len < Len(hnd.bytes)
        /\ Len(readers[i].out) = 2
        /\ LastCallOf(i)
        /\ rd_last.buf_len > rd_last.len - rd_last.before
        /\ rd_last.res = Ok(rd_last.len - rd_last.before)

\* C17: a read call with remaining = len - n_read returns Ok(0) without
\* calling the backing handle when remaining is 0, leaving n_read as it was
\* (so every later read does the same); otherwise it hands the backing handle
\* a buffer of min(buf.len, remaining) bytes, and on Ok(n) returns n, n being
\* at most that many, and adds n to n_read; on an error n_read is unchanged.
ReadContract ==
    rd_last # Pending =>
        LET remaining == rd_last.len - rd_last.before
        IN  /\ remaining = 0 =>
                /\ rd_last.res = Ok(0)
                /\ rd_last.asked = -1
                /\ rd_last.after = rd_last.before
            /\ remaining # 0 =>
                /\ rd_last.asked = Min(rd_last.buf_len, remaining)
                /\ IsOk(rd_last.res) \/ IsErr(rd_last.res)
                /\ IsOk(rd_last.res) =>
                      /\ rd_last.res.val >= 0
                      /\ rd_last.res.val <= rd_last.asked
                      /\ rd_last.after = rd_last.before + rd_last.res.val
                /\ IsErr(rd_last.res) => rd_last.after = rd_last.before

\* C17's cases: the handle delivered fewer bytes than it was asked for; a read
\* failed after the reader had yielded a byte; a read found nothing remaining.
ShortReadSeen ==
    /\ rd_last # Pending
    /\ IsOk(rd_last.res)
    /\ rd_last.asked = 2
    /\ rd_last.res.val = 1
    /\ rd_last.after = rd_last.before + 1
FailedReadSeen ==
    /\ rd_last # Pending
    /\ IsErr(rd_last.res)
    /\ rd_last.before = 1
    /\ rd_last.after = 1
ReadAtEndSeen ==
    /\ rd_last # Pending
    /\ rd_last.len = 2
    /\ rd_last.before = 2
    /\ rd_last.buf_len = 3
    /\ rd_last.res = Ok(0)

\* C19: at most one FsReader borrowed from the pack's handle is alive, and
\* while it is alive the handle stands where that reader left it, so what the
\* reader has yielded is the bytes of its own range, in order, whatever other
\* readers were made, read and dropped meanwhile.
OneBorrowerPerHandle ==
    /\ Cardinality({i \in 1..Len(readers) : readers[i].r.inner = "Borrowed"}) <= 1
    /\ \A i \in 1..Len(readers) :
          readers[i].r.inner = "Borrowed" =>
              /\ hnd.pos = readers[i].start + readers[i].r.n_read
              /\ readers[i].out =
                    SubSeq(RangeBytes(hnd.bytes, readers[i].start, readers[i].r.len),
                           1, Len(readers[i].out))

\* C19's case: a borrowed reader has yielded its whole range of 4 bytes while
\* a reader made after it, over a file of its own, has read too.
BorrowerAmongReadersSeen ==
    /\ Len(readers) = 2
    /\ readers[1].r.inner = "Borrowed"
    /\ readers[1].start = 2
    /\ readers[1].out = <<13, 14, 15, 16>>
    /\ readers[2].r.inner = "Owned"
    /\ Len(readers[2].out) > 0
    /\ LastCallOf(1)

---------------------------------------------------------------------------
(* Properties of load_file's bytes.                                        *)

\* The stack entries find_file visits, and the one that answers for a name.
Visited == SubSeq(Stack, 1, Len(Stack) - (IF fsys.val.use_proghack THEN 1 ELSE 0))
Answering(n) == MaxOf({i \in 1..Len(Visited) : EntryHas(Visited[i], n)})
Found == Loaded_fs /\ IsOk(fs_res) /\ fs_res.val.some

\* The first record of the name in a pak.
PakRec(im, n) ==
    im.recs[CHOOSE i \in 1..Len(im.recs) :
                /\ im.recs[i].text = n
                /\ \A j \in 1..(i - 1) : im.recs[j].text # n]
RangeInFile(im, r) == r.offset + r.size <= FileLen(im)

\* C18, as claimed: for a name resolved to a pack entry (offset, size)
\* load_file returns exactly size bytes, the bytes [offset, offset + size) of
\* the pack file; for a name resolved to a directory file it returns the whole
\* file; and FsReader::len() is the length of the bytes returned.
LoadReturnsDeclaredSize ==
    Found =>
        LET e == Visited[Answering(fs_name)]
        IN  /\ e.kind = "Pack" =>
                /\ Len(fs_res.val.v) = PakRec(OpenPak(disk, e.path), fs_name).size
                /\ fs_res.val.v = PakCopy(OpenPak(disk, e.path), fs_name)
            /\ e.kind = "Directory" =>
                fs_res.val.v = DiskDir(disk, e.path).loose[fs_name]
            /\ fs_len = Len(fs_res.val.v)

\* C18: for a name resolved to a pack entry (offset, size) whose range lies
\* within the pack file, load_file returns exactly size bytes, the bytes
\* [offset, offset + size) of the pack file, and FsReader::len() is their
\* number; when the range passes the end of the pack file load_file returns
\* without error the bytes from offset to the end of the file, fewer than
\* size, while FsReader::len() is still size.  For a name resolved to a
\* directory file it returns the whole file and FsReader::len() is its length.
LoadReturnsRangeInFile ==
    Found =>
        LET e == Visited[Answering(fs_name)]
        IN  /\ e.kind = "Pack" =>
                LET im == OpenPak(disk, e.path)
                    r == PakRec(im, fs_name)
                IN  /\ fs_res.val.v = PakCopy(im, fs_name)
                    /\ fs_len = r.size
                    /\ RangeInFile(im, r) => Len(fs_res.val.v) = r.size
                    /\ ~RangeInFile(im, r) =>
                          /\ Len(fs_res.val.v) = FileLen(im) - r.offset
                          /\ Len(fs_res.val.v) < r.size
            /\ e.kind = "Directory" =>
                /\ fs_res.val.v = DiskDir(disk, e.path).loose[fs_name]
                /\ fs_len = Len(fs_res.val.v)

\* C18's case: the name was resolved to a pack entry that is not the pak's
\* first bytes, and the 2 bytes of its range came back.
PackEntryLoadedSeen ==
    /\ Found
    /\ Visited[Answering(fs_name)].kind = "Pack"
    /\ PakRec(OpenPak(disk, Visited[Answering(fs_name)].path), fs_name).size = 2
    /\ Len(fs_res.val.v) = 2
    /\ fs_len = 2

\* A pack entry whose range passes the end of the pak was loaded.
LongEntryLoadedSeen ==
    /\ Found
    /\ Visited[Answering(fs_name)].kind = "Pack"
    /\ ~RangeInFile(OpenPak(disk, Visited[Answering(fs_name)].path),
                    PakRec(OpenPak(disk, Visited[Answering(fs_name)].path), fs_name))
    /\ fs_len > Len(fs_res.val.v)

---------------------------------------------------------------------------
(* Properties of resolution's frame.                                       *)

\* The search entries in order, each pack with its entry list; a pack's
\* handle and where it stands are not part of them.
Entries(fs0) ==
    [i \in 1..Len(fs0.search_paths) |->
        [kind |-> fs0.search_paths[i].kind,
         path |-> fs0.search_paths[i].path,
         file_infos |-> IF fs0.search_paths[i].kind = "Pack"
                        THEN fs0.search_paths[i].pak.file_infos ELSE <<>>]]

\* One step of a constructed FileSys leaves the entries as they are, and with
\* them what load_file returns for every name.
ResolutionStep ==
    IsOk(fsys) =>
        /\ IsOk(fsys')
        /\ Entries(fsys'.val) = Entries(fsys.val)
        /\ fsys'.val.use_proghack = fsys.val.use_proghack
        /\ \A n \in Names :
              load_file(fsys'.val, disk', n).res = load_file(fsys.val, disk, n).res

\* C20: every load_file call leaves the sequence of search entries and every
\* pack's entry list as they were, so that they stay as construction made
\* them, and leaves what load_file returns for each name as it was, so that a
\* call returns the bytes it would have returned as the first call.
ResolutionIsRepeatable == [][ResolutionStep]_vars

\* C20's case: a name was loaded from a pack after another pack's handle had
\* been moved by a load of the other name.
LoadAfterLoadSeen ==
    /\ Found
    /\ Visited[Answering(fs_name)].kind = "Pack"
    /\ \E j \in 1..Len(Stack) :
          /\ Stack[j].kind = "Pack"
          /\ j # Answering(fs_name)
          /\ \E k \in 1..Len(Stack[j].pak.file_infos) :
                /\ Stack[j].pak.file_infos[k].name # fs_name
                /\ Stack[j].pak.reader = Stack[j].pak.file_infos[k].offset
                                           + Stack[j].pak.file_infos[k].size

---------------------------------------------------------------------------
(* Properties of the pack's name lookup.                                   *)

LookupRecs == disk[GAMENAME].paks[1].recs
LookedUp == load_call = "Pack::load" /\ fs_res # Pending

\* The records of exactly that name, byte for byte, by their place in the
\* directory.
ExactHits(n) == {k \in 1..Len(LookupRecs) : LookupRecs[k].text = n}

\* C21: the lookup of a name in a pack returns the first record, in directory
\* order, whose name is the looked-up name byte for byte, and nothing when no
\* record has exactly that name: a record whose name differs from it only in
\* letter case is not a match, and of several records of the name the first
\* answers.
LookupIsFirstExactMatch ==
    LookedUp =>
        IF ExactHits(fs_name) = {} THEN fs_res = Ok(None)
        ELSE LET first == CHOOSE k \in ExactHits(fs_name) :
                              \A j \in ExactHits(fs_name) : k <= j
             IN  fs_res = Ok(Some(<<70 + first>>))

\* C21's case: the directory holds "A", "a", "a"; the lookup of "a" passes the
\* first record and returns the second, not the third.
SecondOfThreeSeen ==
    /\ LookedUp
    /\ Len(LookupRecs) = 3
    /\ LookupRecs[1].text = NameUpperA
    /\ LookupRecs[2].text = NameA
    /\ LookupRecs[3].text = NameA
    /\ fs_name = NameA
    /\ fs_res = Ok(Some(<<72>>))

---------------------------------------------------------------------------
(* Properties of the wad's lumps.                                          *)

WadLoaded == load_call = "Wad::load_from_file" /\ img.kind = "wad"
TheWad == load_res.val

ValidTypes == {0, 1, 64, 65, 66, 67, 68}
ValidCompressions == {0, 1}
GoodCodes(r) == r.type \in ValidTypes /\ r.compression \in ValidCompressions

\* C22: a wad loads only if every lump record's type code is one of 0, 1, 64,
\* 65, 66, 67, 68 and its compression code is 0 or 1: a record with any other
\* type or compression code, wherever it stands in the table, makes the load
\* return an Err, and a table of records with such codes only loads.
LumpCodesChecked ==
    WadLoaded =>
        /\ IsOk(load_res) =>
              /\ Len(TheWad.lumps) = NumRecs(img)
              /\ \A k \in 1..NumRecs(img) : GoodCodes(RecAt(img, k))
        /\ (\E k \in 1..NumRecs(img) : ~GoodCodes(RecAt(img, k))) =>
              load_res \in {Err("Invalid lump type"), Err("Invalid compression type")}
        /\ (\A k \in 1..NumRecs(img) : GoodCodes(RecAt(img, k))) => IsOk(load_res)

\* C22's case: the first record is fine, the second has the type code 69
\* and a good compression code; the load is refused for the type.
UnknownTypeInSecondRecordSeen ==
    /\ WadLoaded
    /\ NumRecs(img) = 2
    /\ GoodCodes(RecAt(img, 1))
    /\ RecAt(img, 2).type = 69
    /\ RecAt(img, 2).compression = 1
    /\ load_res = Err("Invalid lump type")

\* The letters of a name, all in lower case.
Lower(n) == [k \in 1..Len(n) |-> to_ascii_lowercase(n[k])]

\* The table's records whose name is the name but for letter case.
CaseHits(n) == {k \in 1..NumRecs(img) : Lower(RecAt(img, k).text) = Lower(n)}
FirstCaseHit(n) == CHOOSE k \in CaseHits(n) : \A j \in CaseHits(n) : k <= j

Called(op) == WadLoaded /\ IsOk(load_res) /\ wad_call.op = op

\* C23: lump_info(name) returns the first lump in table order whose name is
\* the name but for ASCII letter case, with the fields of that record, and an
\* Err when the table holds no such lump.
LumpInfoIsFirstCaseMatch ==
    Called("lump_info") =>
        IF CaseHits(wad_call.name) = {} THEN wad_res = Err("No lump named")
        ELSE /\ IsOk(wad_res)
             /\ wad_res.val = TheWad.lumps[FirstCaseHit(wad_call.name)]
             /\ wad_res.val.name = RecAt(img, FirstCaseHit(wad_call.name)).text
             /\ wad_res.val.file_pos = RecAt(img, FirstCaseHit(wad_call.name)).file_pos

\* C23's case: the table holds "A" at 14 and then "a" at 12; lump_info("a")
\* returns the lump "A".
CaseInsensitiveFirstSeen ==
    /\ Called("lump_info")
    /\ NumRecs(img) = 2
    /\ RecAt(img, 1).text = LumpUpperA
    /\ RecAt(img, 2).text = LumpA
    /\ RecAt(img, 2).file_pos = 12
    /\ wad_call.name = LumpA
    /\ IsOk(wad_res)
    /\ wad_res.val.name = LumpUpperA
    /\ wad_res.val.file_pos = 14

\* No lump of the name: lump_info("c") is an Err.
NoSuchLumpSeen ==
    /\ Called("lump_info")
    /\ NumRecs(img) = 2
    /\ wad_call.name = LumpC
    /\ wad_res = Err("No lump named")

\* The call asked for the data of a lump the table holds: which record.
DataCalled ==
    \/ Called("data_for_lump_named") /\ CaseHits(wad_call.name) # {}
    \/ Called("data_for_lump_num") /\ wad_call.n < NumRecs(img)
AskedRec ==
    IF wad_call.op = "data_for_lump_named" THEN RecAt(img, FirstCaseHit(wad_call.name))
    ELSE RecAt(img, wad_call.n + 1)
RangeInBuffer(r) ==
    r.file_pos <= Len(TheWad.data) /\ r.disk_size <= Len(TheWad.data) - r.file_pos

\* C24, as claimed: data_for_lump_named and data_for_lump_num return an Err
\* when the lump's range [file_pos, file_pos + disk_size) passes the end of
\* the loaded buffer, and exactly that range of the buffer otherwise.
DataRangeValidated ==
    DataCalled =>
        IF RangeInBuffer(AskedRec)
        THEN wad_res = Ok(SubSeq(TheWad.data, AskedRec.file_pos + 1,
                                 AskedRec.file_pos + AskedRec.disk_size))
        ELSE IsErr(wad_res)

\* What the code does: the range when it lies in the buffer, the panic of
\* the slice when it does not.
DataRangeSlicedUnchecked ==
    DataCalled =>
        IF RangeInBuffer(AskedRec)
        THEN wad_res = Ok(SubSeq(TheWad.data, AskedRec.file_pos + 1,
                                 AskedRec.file_pos + AskedRec.disk_size))
        ELSE IsPanic(wad_res)

\* A lump whose range passes the end of the buffer was asked for by name.
RangePastBufferSeen ==
    /\ DataCalled
    /\ wad_call.op = "data_for_lump_named"
    /\ AskedRec.file_pos = 14
    /\ AskedRec.disk_size = 200
    /\ IsPanic(wad_res)

\* data_for_lump_named returned the bytes of a lump.
NamedDataReturned == Called("data_for_lump_named") /\ IsOk(wad_res)

\* C25, as claimed: for a lump whose compression is None the slice that
\* data_for_lump_named(name) returns is as long as lump_info(name).size().
UncompressedDataHasSize ==
    (NamedDataReturned /\ Wad_lump_info(TheWad, wad_call.name).val.compression = "None")
        => Len(wad_res.val) = Wad_lump_info(TheWad, wad_call.name).val.size

\* C25: the slice that data_for_lump_named(name) returns is as long as
\* lump_info(name).disk_size(), compressed or not; for a lump whose
\* compression is None it is as long as lump_info(name).size() exactly when
\* the lump's record gives the same number for both sizes.
DataHasDiskSize ==
    NamedDataReturned =>
        LET lump == Wad_lump_info(TheWad, wad_call.name).val
        IN  /\ Len(wad_res.val) = lump.disk_size
            /\ lump.disk_size = AskedRec.disk_size
            /\ lump.size = AskedRec.size
            /\ lump.compression = "None" =>
                  (Len(wad_res.val) = lump.size <=> AskedRec.disk_size = AskedRec.size)

\* C25's case: an uncompressed lump of 2 bytes on disk whose record says 4
\* bytes for its size came back as 2 bytes.
UncompressedSizesDifferSeen ==
    /\ NamedDataReturned
    /\ AskedRec.compression = 0
    /\ AskedRec.disk_size = 2
    /\ AskedRec.size = 4
    /\ Len(wad_res.val) = 2
    /\ Wad_lump_info(TheWad, wad_call.name).val.size = 4

\* C29, as claimed: data_for_lump_num(n) returns an Err for every n that is
\* not below the number of lumps and never panics on such an n, and returns
\* data, the data of lump n, only for n below the number of lumps.
LumpNumChecked ==
    Called("data_for_lump_num") =>
        /\ wad_call.n >= Len(TheWad.lumps) => IsErr(wad_res)
        /\ IsOk(wad_res) =>
              /\ wad_call.n < Len(TheWad.lumps)
              /\ wad_res.val = SubSeq(TheWad.data, AskedRec.file_pos + 1,
                                      AskedRec.file_pos + AskedRec.disk_size)

\* What the code does: an Err for n above the number of lumps, the panic of
\* the index for n equal to it, the lump's range for n below it.
LumpNumCheckedAboveCount ==
    Called("data_for_lump_num") =>
        /\ wad_call.n > Len(TheWad.lumps) => wad_res = Err("Bad lump number")
        /\ wad_call.n = Len(TheWad.lumps) => wad_res = Panic("index out of bounds")
        /\ wad_call.n < Len(TheWad.lumps) =>
              wad_res = Slice(TheWad.data, AskedRec.file_pos, AskedRec.disk_size)

\* data_for_lump_num(2) on a wad of 2 lumps.
LumpNumEqualsCountSeen ==
    /\ Called("data_for_lump_num")
    /\ Len(TheWad.lumps) = 2
    /\ TheWad.info.num_lumps = 2
    /\ wad_call.n = 2
    /\ IsPanic(wad_res)

---------------------------------------------------------------------------
(* Properties of the wad's table.                                          *)

\* The wad loader ran on a file with a WAD2 header of non-negative fields.
WadHeaderRead ==
    /\ Loaded("Wad::load_from_file", "wad")
    /\ img.id = WAD2_ID
    /\ img.num_lumps >= 0
    /\ img.lump_table_offset >= 0

\* The number of whole 32-byte records between the header's table offset and
\* the end of the file.
RecordsInFile ==
    IF img.lump_table_offset > FileLen(img) THEN 0
    ELSE (FileLen(img) - img.lump_table_offset) \div LUMP_INFO_SIZE

\* The table the header describes lies in the file.
TableFits ==
    /\ img.lump_table_offset <= FileLen(img)
    /\ img.num_lumps <= RecordsInFile

\* C30, as claimed: Wad::load_from_file returns an Err, and does not panic,
\* when the table the header describes (lump_table_offset + 32 * num_lumps
\* bytes) does not fit in the file's bytes; and a load that succeeds holds as
\* many lumps as the header counts.
WadTableChecked ==
    WadHeaderRead =>
        /\ ~TableFits => IsErr(load_res)
        /\ ~IsPanic(load_res)
        /\ IsOk(load_res) => Len(load_res.val.lumps) = img.num_lumps

\* What the code does: a load that succeeds holds as many lumps as the header
\* counts, all of them in the file; a table that counts more records than the
\* file holds ends in the panic of the slice, unless a record in front of the
\* file's end is refused first.
WadTableSlicedUnchecked ==
    WadHeaderRead =>
        /\ IsOk(load_res) =>
              /\ Len(load_res.val.lumps) = img.num_lumps
              /\ img.num_lumps <= RecordsInFile
        /\ img.num_lumps > RecordsInFile => (IsPanic(load_res) \/ IsErr(load_res))
        /\ IsPanic(load_res) => img.num_lumps > RecordsInFile

\* The header counts 2 lumps at offset 12 and the file holds one good record.
TablePastFileSeen ==
    /\ WadHeaderRead
    /\ img.num_lumps = 2
    /\ img.lump_table_offset = HEADER_SIZE
    /\ RecordsInFile = 1
    /\ RecAt(img, 1) = PlainLumpRec
    /\ IsPanic(load_res)


----------------------------------------------------------------------------
(* Properties of the command buffer.                                       *)

\* The i-th character of text ends the buffer's first line when no
\* character in front of it does: a newline, or a `;` behind an even number
\* of quote marks.
EndsLine(text, i) ==
    \/ text[i] = NL
    \/ /\ text[i] = ";"
       /\ Cardinality({j \in 1..(i - 1) : text[j] = Quote}) % 2 = 0

LineEnds(text) == {i \in 1..Len(text) : EndsLine(text, i)}

FirstEnd(text) == CHOOSE i \in LineEnds(text) : \A j \in LineEnds(text) : i <= j

\* The line at the front of the buffer, and the text behind it.
FrontLine(text) ==
    IF LineEnds(text) = {} THEN text ELSE SubSeq(text, 1, FirstEnd(text) - 1)

BehindFront(text) ==
    IF LineEnds(text) = {} THEN <<>>
    ELSE SubSeq(text, FirstEnd(text) + 1, Len(text))

\* The lines of a text, front first.
RECURSIVE AllLines(_)
AllLines(text) ==
    IF text = <<>> THEN <<>>
    ELSE <<FrontLine(text)>> \o AllLines(BehindFront(text))

\* The command a line names, given the registries of the state.
NamedBy(line) == Command_tokenise(line)

\* Executing the line fails: its command's handler returns an Err, or its
\* name is no command's and no cvar's.
LineFails(line) ==
    /\ NamedBy(line).some
    /\ \/ /\ NamedBy(line).v \in DOMAIN commands
          /\ commands[NamedBy(line).v] = "err"
       \/ /\ NamedBy(line).v \notin DOMAIN commands
          /\ \A i \in 1..Len(cvars) : cvars[i] # NamedBy(line).v

\* Executing the line inserts text for the buffer.
LineInserts(line) ==
    /\ NamedBy(line).some
    /\ NamedBy(line).v \in DOMAIN commands
    /\ commands[NamedBy(line).v] = "insert"

\* What the first line's execution leaves in front of the rest.
WithInserted(line, rest) ==
    IF LineInserts(line) THEN StuffText \o rest ELSE rest

RanBuffer == cmd_call.op = "execute_buffer"

\* A step of execute_buffer on a buffer with text.
RunStep == cmd_call'.op = "execute_buffer" /\ cmd_text # <<>>

\* C26 as stated: execute_buffer executes the buffer's lines from the front
\* until the buffer is empty; with the wait flag set it executes one line,
\* resets the flag and leaves the rest of the text for the next call.
ExecuteBufferEndsEmptyOrWaits ==
    [][RunStep =>
        /\ cmd_ran' # <<>>
        /\ Head(cmd_ran') = FrontLine(cmd_text)
        /\ wait' = FALSE
        /\ IF wait
           THEN /\ cmd_ran' = <<FrontLine(cmd_text)>>
                /\ cmd_text' = WithInserted(FrontLine(cmd_text),
                                            BehindFront(cmd_text))
           ELSE cmd_text' = <<>>]_vars

\* C26, amended: execute_buffer executes the buffer's lines from the front.
\* It returns Ok with the buffer empty, or, with the wait flag set, after one
\* line, with the flag reset and the rest of the text left in the buffer.  It
\* stops at the first line whose execution fails: the failure is its outcome,
\* the wait flag is as it was and every line in front of that one executed.
ExecuteBufferStops ==
    [][RunStep =>
        /\ cmd_ran' # <<>>
        /\ Head(cmd_ran') = FrontLine(cmd_text)
        /\ \A k \in 1..(Len(cmd_ran') - 1) : ~LineFails(cmd_ran'[k])
        /\ IF LineFails(cmd_ran'[Len(cmd_ran')])
           THEN /\ ~IsOk(cmd_res')
                /\ wait' = wait
                /\ wait => cmd_text' = BehindFront(cmd_text)
           ELSE /\ IsOk(cmd_res')
                /\ wait' = FALSE
                /\ IF wait
                   THEN /\ cmd_ran' = <<FrontLine(cmd_text)>>
                        /\ cmd_text' = WithInserted(FrontLine(cmd_text),
                                                    BehindFront(cmd_text))
                   ELSE cmd_text' = <<>>]_vars

\* A call stopped by the wait flag after one line, with text left behind it.
WaitStopSeen ==
    /\ RanBuffer
    /\ IsOk(cmd_res)
    /\ Len(cmd_ran) = 1
    /\ cmd_text # <<>>
    /\ ~wait

\* A call stopped by a handler's Err with text left behind the line.
ErrStopSeen ==
    /\ RanBuffer
    /\ IsErr(cmd_res)
    /\ Len(cmd_ran) > 1
    /\ cmd_text # <<>>

\* No command registered inserts text.
NoInserts == \A n \in DOMAIN commands : commands[n] # "insert"

\* A step of the buffer keeps the buffer's order.
OrderStep ==
    /\ cmd_call'.op = "add_text" => cmd_text' = cmd_text \o cmd_call'.text
    /\ cmd_call'.op = "insert_text" => cmd_text' = cmd_call'.text \o cmd_text
    /\ cmd_call'.op = "execute_buffer" =>
          /\ NoInserts => cmd_ran' \o AllLines(cmd_text') = AllLines(cmd_text)
          /\ \A k \in 1..(Len(cmd_ran') - 1) :
                LineInserts(cmd_ran'[k]) =>
                    cmd_ran'[k + 1] = FrontLine(StuffText)

\* C27: the buffer's text executes in its order: add_text puts its text
\* behind the pending text and insert_text in front of it, a run of the
\* buffer executes the pending lines front first, and the text a handler
\* inserts executes in front of what was pending.
BufferOrder == [][OrderStep]_vars

\* A run of three lines or more whose second-to-last or earlier line inserted
\* text, with a line of the pending text behind the inserted one.
InsertedRanFirstSeen ==
    /\ RanBuffer
    /\ \E k \in 1..(Len(cmd_ran) - 2) :
          /\ LineInserts(cmd_ran[k])
          /\ cmd_ran[k + 1] = FrontLine(StuffText)

\* insert_text put a text in front of pending text.
InsertedInFrontSeen ==
    /\ cmd_call.op = "insert_text"
    /\ Len(cmd_text) > Len(cmd_call.text)
    /\ SubSeq(cmd_text, 1, Len(cmd_call.text)) = cmd_call.text
    /\ SubSeq(cmd_text, Len(cmd_call.text) + 1, Len(cmd_text)) # cmd_call.text

----------------------------------------------------------------------------
(* Properties of the two registries.                                       *)

IsCvar(name) == \E i \in 1..Len(cvars) : cvars[i] = name

\* No name is a cvar's and a command's, and no cvar's name is there twice
\* (the commands are a map: a name is there once).
RegistriesApart ==
    /\ \A i \in 1..Len(cvars) : cvars[i] \notin DOMAIN commands
    /\ \A i, j \in 1..Len(cvars) : cvars[i] = cvars[j] => i = j

Registering == cmd_call'.op \in {"register", "register_command"}

\* A registration of a name that is there already panics and changes
\* neither registry; another one puts the name in its registry alone.
RegistrationStep ==
    /\ RegistriesApart'
    /\ Registering =>
          IF IsCvar(cmd_call'.text) \/ cmd_call'.text \in DOMAIN commands
          THEN cmd_res'.tag = "Panic" /\ UNCHANGED <<commands, cvars>>
          ELSE /\ IsOk(cmd_res')
               /\ IF cmd_call'.op = "register"
                  THEN cvars' = Append(cvars, cmd_call'.text)
                       /\ UNCHANGED commands
                  ELSE DOMAIN commands' = DOMAIN commands \cup {cmd_call'.text}
                       /\ UNCHANGED cvars

\* C28: after any sequence of CvarManager::register and
\* CommandCenter::register_command calls no name is both a cvar's and a
\* command's and none is registered twice: a registration that would clash
\* panics and leaves both registries as they were.
RegistrationsNeverClash == [][RegistrationStep]_vars

\* A cvar's registration under a command's name was rejected.
CvarClashRejectedSeen ==
    /\ cmd_call.op = "register"
    /\ cmd_res.tag = "Panic"
    /\ cmd_call.text \in DOMAIN commands
    /\ cvars # <<>>

=============================================================================
